---- MODULE Spec2Model ----
(***************************************************************************)
(* A model of the Mag7 dashboard (utils.py, components.py, app.py,         *)
(* streamlit_app.py): the pandas frames the pipeline passes around, the    *)
(* pure stages (basket aggregator, tabular combiner, export conversion)    *)
(* and one run of each Streamlit script.                                   *)
(*                                                                         *)
(* A DataFrame is a record [tz, columns, rows]:                            *)
(*   tz       the timezone label of the DatetimeIndex ("naive" for none),   *)
(*   columns  the column names in order, each a record [e, k] standing for  *)
(*            the Python string  e + " " + k  (e = "" for a plain name),    *)
(*   rows     the rows in index order, each [t, cell]; t is what pandas     *)
(*            stores: the UTC instant of a timezone-aware index, the wall   *)
(*            clock reading of a naive one, counted in 30-minute bars.      *)
(* A float is an exact rational [n, d]; NaN is [n |-> 0, d |-> 0].          *)
(***************************************************************************)
EXTENDS Integers, Sequences, FiniteSets, TLC

\* ------------------------------------------------------------------ bounds
\* timestamps of the enumerated input series are 0 .. MaxT-1
MaxT == 4
\* number of entities of an enumerated basket
MaxEntities == 2

\* ------------------------------------------------------------- arithmetic
RECURSIVE GCD(_, _)
GCD(a, b) == IF b = 0 THEN a ELSE GCD(b, a % b)

Abs(x) == IF x < 0 THEN 0 - x ELSE x

NaN == [n |-> 0, d |-> 0]

IsNaN(r) == r.d = 0

\* the rational n/d in lowest terms, d > 0
Norm(n, d) ==
    LET s == IF d < 0 THEN 0 - 1 ELSE 1
        g == GCD(Abs(n), Abs(d))
    IN  [n |-> (s * n) \div g, d |-> (s * d) \div g]

R(i) == [n |-> i, d |-> 1]

RAdd(a, b) == IF IsNaN(a) \/ IsNaN(b) THEN NaN ELSE Norm(a.n * b.d + b.n * a.d, a.d * b.d)

RSub(a, b) == IF IsNaN(a) \/ IsNaN(b) THEN NaN ELSE Norm(a.n * b.d - b.n * a.d, a.d * b.d)

RMul(a, b) == IF IsNaN(a) \/ IsNaN(b) THEN NaN ELSE Norm(a.n * b.n, a.d * b.d)

\* float division; the divisors of the model are prices, never 0
RDiv(a, b) == IF IsNaN(a) \/ IsNaN(b) \/ b.n = 0 THEN NaN ELSE Norm(a.n * b.d, a.d * b.n)

\* "{:.2f}%".format(x): x rounded to two decimals (ties to even), kept as
\* the number of hundredths over the denominator 100; "nan%" is NaN
Format2f(r) ==
    IF IsNaN(r) THEN NaN ELSE
    LET num == r.n * 100
        fl  == num \div r.d
        rem == num - fl * r.d
        h   == IF 2 * rem > r.d THEN fl + 1
               ELSE IF 2 * rem < r.d THEN fl
               ELSE IF fl % 2 = 0 THEN fl ELSE fl + 1
    IN  [n |-> h, d |-> 100]

\* ------------------------------------------------------------ data frames
Col(e, k) == [e |-> e, k |-> k]

AdjClose == Col("", "Adj Close")

\* pd.DataFrame()
EmptyFrame == [tz |-> "naive", columns |-> <<>>, rows |-> <<>>]

Range(s) == {s[i] : i \in 1..Len(s)}

\* DataFrame.empty: no rows or no columns
IsEmpty(df) == Len(df.rows) = 0 \/ Len(df.columns) = 0

HasColumn(df, c) == c \in Range(df.columns)

Index(df) == [i \in 1..Len(df.rows) |-> df.rows[i].t]

IndexSet(df) == {df.rows[i].t : i \in 1..Len(df.rows)}

\* df[c]: the values of one column, in index order
Column(df, c) == [i \in 1..Len(df.rows) |-> df.rows[i].cell[c]]

\* the value of column c at index label t (NaN when t is no label of df)
At(df, c, t) ==
    IF \E i \in 1..Len(df.rows) : df.rows[i].t = t
    THEN LET i == CHOOSE j \in 1..Len(df.rows) : df.rows[j].t = t IN df.rows[i].cell[c]
    ELSE NaN

RECURSIVE SortedSeq(_)
SortedSeq(S) ==
    IF S = {} THEN <<>>
    ELSE LET m == CHOOSE x \in S : \A y \in S : x <= y
         IN  <<m>> \o SortedSeq(S \ {m})

\* a call either returns a value or raises
Return(v) == [raised |-> FALSE, exc |-> "", val |-> v]

Raise(e) == [raised |-> TRUE, exc |-> e, val |-> EmptyFrame]

\* ------------------------------------------------- percentage change (4.4)
\* the last non-missing value of s at or before position i (pandas pads
\* missing values forward before differencing), NaN when there is none
RECURSIVE LastValid(_, _)
LastValid(s, i) ==
    IF i < 1 THEN NaN
    ELSE IF ~IsNaN(s[i]) THEN s[i]
    ELSE LastValid(s, i - 1)

\* the change since the first sample instead of the previous one
PctChangeSinceFirst(s) ==
    [i \in 1..Len(s) |->
        IF i = 1 THEN NaN
        ELSE RMul(RSub(RDiv(LastValid(s, i), LastValid(s, 1)), R(1)), R(100))]

\* Series.pct_change() * 100: position 1 is NaN, position i is
\* (s[i] / s[i-1] - 1) * 100
PctChange100(s) ==
    [i \in 1..Len(s) |->
        IF i = 1 THEN NaN
        ELSE RMul(RSub(RDiv(LastValid(s, i), LastValid(s, i - 1)), R(1)), R(100))]

\* ------------------------------------------------- tabular combiner (4.5)
ValueCol(ticker) == Col(ticker, "Value")

PctCol(ticker) == Col(ticker, "% Change")

\* Python's  word in e  for the entity names of the model
NameContains(e, word) == e = "Value Fund" /\ word = "Value"

\* Python's  word in col  for the column  c.e + " " + c.k
ColContains(c, word) == c.k = word \/ NameContains(c.e, word)

\* data[['Adj Close']].copy(), renamed to '<ticker> Value', with the column
\* '<ticker> % Change' added
TickerFrame(ticker, data) ==
    LET pct == PctChange100(Column(data, AdjClose))
    IN  [tz      |-> data.tz,
         columns |-> <<ValueCol(ticker), PctCol(ticker)>>,
         rows    |-> [i \in 1..Len(data.rows) |->
                        [t    |-> data.rows[i].t,
                         cell |-> [c \in {ValueCol(ticker), PctCol(ticker)} |->
                                     IF c = ValueCol(ticker)
                                     THEN data.rows[i].cell[AdjClose]
                                     ELSE pct[i]]]]]

\* left.join(right, how='outer'): the sorted union of the two indexes, a
\* label missing on one side gives NaN in that side's columns
JoinOuter(left, right) ==
    LET idx  == SortedSeq(IndexSet(left) \cup IndexSet(right))
        cols == left.columns \o right.columns
    IN  [tz      |-> IF left.tz = right.tz THEN left.tz ELSE "UTC",
         columns |-> cols,
         rows    |-> [i \in 1..Len(idx) |->
                        [t    |-> idx[i],
                         cell |-> [c \in Range(cols) |->
                                     IF c \in Range(left.columns)
                                     THEN At(left, c, idx[i])
                                     ELSE At(right, c, idx[i])]]]]

RowHasNaN(row) == \E c \in DOMAIN row.cell : IsNaN(row.cell[c])

\* dropna(how='all'): only the rows that are missing everywhere are dropped
DropNaHowAll(df) ==
    [df EXCEPT !.rows = SelectSeq(df.rows, LAMBDA r : \E c \in DOMAIN r.cell : ~IsNaN(r.cell[c]))]

\* DataFrame.dropna(): the rows without any missing cell
DropNa(df) == [df EXCEPT !.rows = SelectSeq(df.rows, LAMBDA r : ~RowHasNaN(r))]

\* the loop of create_dataframe from entity i on; combined is combined_df
RECURSIVE CombineLoop(_, _, _)
CombineLoop(tickers_data, i, combined) ==
    IF i > Len(tickers_data) THEN Return(combined)
    ELSE LET ticker == tickers_data[i].name
             data   == tickers_data[i].data
         IN  IF IsEmpty(data) THEN CombineLoop(tickers_data, i + 1, combined)
             ELSE IF ~HasColumn(data, AdjClose) THEN Raise("KeyError")
             ELSE LET df == TickerFrame(ticker, data)
                  IN  CombineLoop(tickers_data, i + 1,
                                  IF ~IsEmpty(combined) THEN JoinOuter(combined, df) ELSE df)

\* the tail of create_dataframe: format the % Change columns, put the Value
\* columns first
FormatAndReorder(df) ==
    LET value_columns == SelectSeq(df.columns, LAMBDA c : ColContains(c, "Value"))
        pct_columns   == SelectSeq(df.columns, LAMBDA c : ColContains(c, "% Change"))
    IN  [tz      |-> df.tz,
         columns |-> value_columns \o pct_columns,
         rows    |-> [i \in 1..Len(df.rows) |->
                        [t    |-> df.rows[i].t,
                         cell |-> [c \in Range(value_columns \o pct_columns) |->
                                     IF c \in Range(pct_columns)
                                     THEN Format2f(df.rows[i].cell[c])
                                     ELSE df.rows[i].cell[c]]]]]

create_dataframe(tickers_data) ==
    IF Len(tickers_data) = 0 THEN Return(EmptyFrame)
    ELSE LET looped == CombineLoop(tickers_data, 1, EmptyFrame)
         IN  IF looped.raised THEN looped
             ELSE Return(FormatAndReorder(DropNa(looped.val)))

\* ------------------------------------------------- basket aggregator (4.3)
\* portfolio[name] = series: an empty frame takes the index of the series,
\* any other frame keeps its own index and the series is aligned to it
SetColumn(df, c, series) ==
    IF Len(df.columns) = 0 /\ Len(df.rows) = 0
    THEN [tz      |-> series.tz,
          columns |-> <<c>>,
          rows    |-> [i \in 1..Len(series.rows) |->
                         [t |-> series.rows[i].t, cell |-> [x \in {c} |-> series.rows[i].v]]]]
    ELSE [tz      |-> df.tz,
          columns |-> IF c \in Range(df.columns) THEN df.columns ELSE Append(df.columns, c),
          rows    |-> [i \in 1..Len(df.rows) |->
                         [t    |-> df.rows[i].t,
                          cell |-> [x \in Range(df.columns) \cup {c} |->
                                      IF x = c
                                      THEN IF \E j \in 1..Len(series.rows) :
                                                  series.rows[j].t = df.rows[i].t
                                           THEN series.rows[CHOOSE j \in 1..Len(series.rows) :
                                                  series.rows[j].t = df.rows[i].t].v
                                           ELSE NaN
                                      ELSE df.rows[i].cell[x]]]]]

\* data[c] * k as a series [tz, rows of (t, v)]
ScaledSeries(data, c, k) ==
    [tz   |-> data.tz,
     rows |-> [i \in 1..Len(data.rows) |->
                 [t |-> data.rows[i].t, v |-> RMul(data.rows[i].cell[c], k)]]]

\* DataFrame.sum(axis=1) of one row: missing cells are skipped
RECURSIVE SumRow(_, _, _)
SumRow(cols, cell, i) ==
    IF i > Len(cols) THEN R(0)
    ELSE RAdd(IF IsNaN(cell[cols[i]]) THEN R(0) ELSE cell[cols[i]], SumRow(cols, cell, i + 1))

WeightedPortfolioCol == Col("", "Weighted Portfolio")

\* the weight renormalized over the entities that have data
WeightsOverNonEmpty(mag7_data) ==
    RDiv(R(1), R(Cardinality({i \in 1..Len(mag7_data) : ~IsEmpty(mag7_data[i].data)})))

\* weights = 1 / len(mag7_data)
Weights(mag7_data) == RDiv(R(1), R(Len(mag7_data)))

\* the loop of calculate_weighted_portfolio from entity i on
RECURSIVE PortfolioLoop(_, _, _, _)
PortfolioLoop(mag7_data, weights, i, portfolio) ==
    IF i > Len(mag7_data) THEN Return(portfolio)
    ELSE LET company == mag7_data[i].name
             data    == mag7_data[i].data
         IN  IF IsEmpty(data) THEN PortfolioLoop(mag7_data, weights, i + 1, portfolio)
             ELSE IF ~HasColumn(data, AdjClose) THEN Raise("KeyError")
             ELSE PortfolioLoop(mag7_data, weights, i + 1,
                                SetColumn(portfolio, Col("", company),
                                          ScaledSeries(data, AdjClose, weights)))

calculate_weighted_portfolio(mag7_data) ==
    IF Len(mag7_data) = 0 THEN Raise("ZeroDivisionError")
    ELSE LET looped == PortfolioLoop(mag7_data, Weights(mag7_data), 1, EmptyFrame)
         IN  IF looped.raised THEN looped
             ELSE IF ~IsEmpty(looped.val)
             THEN Return([tz      |-> looped.val.tz,
                          columns |-> <<WeightedPortfolioCol>>,
                          rows    |-> [i \in 1..Len(looped.val.rows) |->
                                         [t    |-> looped.val.rows[i].t,
                                          cell |-> [c \in {WeightedPortfolioCol} |->
                                                      SumRow(looped.val.columns,
                                                             looped.val.rows[i].cell, 1)]]]])
             ELSE Return(EmptyFrame)

\* ------------------------------------------------------- time zones, export
\* the UTC offset of a zone at the instant t, in 30-minute bars. Bar 0 is
\* 2024-10-27 00:00 UTC: Europe/Berlin leaves summer time (UTC+2) for
\* standard time (UTC+1) at 01:00 UTC of that day
UtcOffset(tz, t) ==
    IF tz \in {"Europe/Berlin", "Europe/Rome"} THEN (IF t < 2 THEN 4 ELSE 2)
    ELSE IF tz = "Europe/London" THEN (IF t < 2 THEN 2 ELSE 0)
    ELSE IF tz = "America/New_York" THEN 0 - 8
    ELSE 0

\* the wall clock reading of the index label t of an index labelled tz
WallClock(tz, t) == IF tz = "naive" THEN t ELSE t + UtcOffset(tz, t)

IsAware(df) == df.tz # "naive"

\* index.tz_convert(None): the UTC wall clock of each instant, no label
TzConvertNone(df) ==
    [df EXCEPT !.tz = "naive",
               !.rows = [i \in 1..Len(df.rows) |->
                           [df.rows[i] EXCEPT !.t = WallClock("UTC", df.rows[i].t)]]]

\* utils.to_excel: sheet is what is written, df the caller's frame afterwards
\* (a copy is converted, the argument is not touched)
to_excel(df) ==
    LET df_to_export == IF IsAware(df) THEN TzConvertNone(df) ELSE df
    IN  [sheet |-> df_to_export, df |-> df]

\* ------------------------------------------------- proxies (app.py, QQQ tab)
ProxyQQQ3 == Col("", "PROXY QQQ3")

ProxyQQQ5 == Col("", "PROXY QQQ5")

\* the column c = frame[src] + k instead
WithShiftedColumn(df, c, src, k) ==
    [tz      |-> df.tz,
     columns |-> IF c \in Range(df.columns) THEN df.columns ELSE Append(df.columns, c),
     rows    |-> [i \in 1..Len(df.rows) |->
                    [t    |-> df.rows[i].t,
                     cell |-> [x \in Range(df.columns) \cup {c} |->
                                 IF x = c THEN RAdd(df.rows[i].cell[src], R(k))
                                 ELSE df.rows[i].cell[x]]]]]

\* frame with the column c = k * frame[src] added
WithScaledColumn(df, c, src, k) ==
    [tz      |-> df.tz,
     columns |-> IF c \in Range(df.columns) THEN df.columns ELSE Append(df.columns, c),
     rows    |-> [i \in 1..Len(df.rows) |->
                    [t    |-> df.rows[i].t,
                     cell |-> [x \in Range(df.columns) \cup {c} |->
                                 IF x = c THEN RMul(df.rows[i].cell[src], R(k))
                                 ELSE df.rows[i].cell[x]]]]]

\* qqq_proxy = qqq_filtered_data.copy() with 'PROXY QQQ3' and 'PROXY QQQ5'
QqqProxy(qqq_filtered_data) ==
    WithScaledColumn(WithScaledColumn(qqq_filtered_data, ProxyQQQ3, AdjClose, 3),
                     ProxyQQQ5, AdjClose, 5)

\* df[[c]]
SelectColumn(df, c) ==
    [tz      |-> df.tz,
     columns |-> <<c>>,
     rows    |-> [i \in 1..Len(df.rows) |->
                    [t |-> df.rows[i].t, cell |-> [x \in {c} |-> df.rows[i].cell[c]]]]]

\* ------------------------------------------------------- enumerated inputs
Times == 0..(MaxT - 1)

Paths == {1, 2}

\* the price of path p at bar t: 10, 20, 30, ... and 20, 50, 30, 10, 40, ...
PriceAt(p, t) == IF p = 1 THEN 10 * (t + 1) ELSE 10 * (1 + ((3 * t + 1) % 5))

EntityNames == <<"A", "B", "C", "D">>

\* a normalized provider series: the bars of `present`, prices of path p
SeriesFrame(present, p) ==
    LET idx == SortedSeq(present)
    IN  IF present = {} THEN EmptyFrame
        ELSE [tz      |-> "Europe/Berlin",
              columns |-> <<AdjClose>>,
              rows    |-> [i \in 1..Len(idx) |->
                             [t |-> idx[i], cell |-> [c \in {AdjClose} |-> R(PriceAt(p, idx[i]))]]]]

SeriesFrames == {SeriesFrame(present, p) : present \in SUBSET Times, p \in Paths}

\* the baskets of n entities
PlainBaskets(n) ==
    {[i \in 1..n |-> [name |-> EntityNames[i], data |-> f[i]]] : f \in [1..n -> SeriesFrames]}

\* the basket app.py hands to create_dataframe in the QQQ tab: the fetched
\* series followed by the proxy frames of the first one
WithProxies(b) ==
    b \o <<[name |-> "PROXY QQQ3", data |-> SelectColumn(QqqProxy(b[1].data), ProxyQQQ3)],
           [name |-> "PROXY QQQ5", data |-> SelectColumn(QqqProxy(b[1].data), ProxyQQQ5)]>>

ProxyBaskets(n) == {WithProxies(b) : b \in {x \in PlainBaskets(n) : n > 0 /\ ~IsEmpty(x[1].data)}}

\* the same baskets with a first entity whose name contains the word Value
NamedBaskets(n) ==
    {[i \in 1..n |-> [name |-> IF i = 1 THEN "Value Fund" ELSE b[i].name, data |-> b[i].data]] :
        b \in {x \in PlainBaskets(n) : n > 0}}

NoSheet == [sheet |-> EmptyFrame, df |-> EmptyFrame]


\* ------------------------------------------------------- provider, fetching
\* Optional values: None, or a frame
None == [none |-> TRUE, df |-> EmptyFrame]

Some(df) == [none |-> FALSE, df |-> df]

\* mag7 of app.py and streamlit_app.py, in insertion order
mag7 == <<[company |-> "Apple", ticker |-> "AAPL"],
          [company |-> "Microsoft", ticker |-> "MSFT"],
          [company |-> "Alphabet", ticker |-> "GOOGL"],
          [company |-> "Amazon", ticker |-> "AMZN"],
          [company |-> "Meta", ticker |-> "META"],
          [company |-> "Tesla", ticker |-> "TSLA"],
          [company |-> "Nvidia", ticker |-> "NVDA"]>>

mags_etf == "MAGS"

leveraged_5x_etf == "MAG7.MI"

qqq3_etf == "qqq3.mi"

qqq5_etf == "qqq5.l"

qqq_etf == "QQQ"

all_tickers == [i \in 1..Len(mag7) |-> mag7[i].ticker]
               \o <<mags_etf, leveraged_5x_etf, qqq3_etf, qqq5_etf, qqq_etf>>

\* the zone the provider labels a ticker's intraday bars with
ExchangeZone(ticker) ==
    IF ticker \in {leveraged_5x_etf, qqq3_etf} THEN "Europe/Rome"
    ELSE IF ticker = qqq5_etf THEN "Europe/London"
    ELSE "America/New_York"

\* what yf.download can answer for a ticker: an exception, an empty frame, or
\* bars starting at firstBar (Monday 2024-10-28 is bars 48..95)
ProviderFrame(ticker, firstBar, nBars, p) ==
    [tz      |-> ExchangeZone(ticker),
     columns |-> <<AdjClose>>,
     rows    |-> [i \in 1..nBars |->
                    [t |-> firstBar + i - 1, cell |-> [c \in {AdjClose} |-> R(PriceAt(p, i - 1))]]]]

Answer(outcome, df) == [outcome |-> outcome, df |-> df]

\* fetch_stock_data: None on an exception and on an empty answer
fetch_stock_data(answer) ==
    IF answer.outcome = "error" THEN None
    ELSE IF IsEmpty(answer.df) THEN None
    ELSE Some(answer.df)

\* ------------------------------------------------- timezone normalizer (4.1)
\* index.tz_localize('UTC'): the naive readings are taken as UTC instants
TzLocalizeUTC(df) == [df EXCEPT !.tz = "UTC"]

\* the label replaced and the clock reading kept: the instants move
TzReplaceLabel(df, zone) ==
    [df EXCEPT !.tz = zone,
               !.rows = [i \in 1..Len(df.rows) |->
                           [df.rows[i] EXCEPT !.t = df.rows[i].t + UtcOffset(df.tz, df.rows[i].t)
                                                    - UtcOffset(zone, df.rows[i].t)]]]

\* tz_convert(zone): the instants stay, the label changes
TzConvert(df, zone) == [df EXCEPT !.tz = zone]

\* every index read as UTC clock readings, labelled or not
process_data_all_times_relocalized(data) ==
    IF data.none \/ IsEmpty(data.df) THEN EmptyFrame
    ELSE [data.df EXCEPT !.tz = "Europe/Berlin",
                         !.rows = [i \in 1..Len(data.df.rows) |->
                                     [data.df.rows[i] EXCEPT
                                        !.t = WallClock(data.df.tz, data.df.rows[i].t)]]]

\* process_data_all_times(data) for data None or a frame
process_data_all_times(data) ==
    IF data.none \/ IsEmpty(data.df) THEN EmptyFrame
    ELSE IF data.df.tz = "naive" THEN TzConvert(TzLocalizeUTC(data.df), "Europe/Berlin")
    ELSE TzConvert(data.df, "Europe/Berlin")

\* ----------------------------------------------------------- what is shown
\* one element put on the page: kind is "warning", "error", "chart", "table"
\* or "download"; rows is the number of rows of the table shown or exported
Shown(kind, msg, who, rows) == [kind |-> kind, msg |-> msg, who |-> who, rows |-> rows]

Warning(msg, who) == Shown("warning", msg, who, 0)

Chart(msg) == Shown("chart", msg, "", 0)

Table(msg, df) == Shown("table", msg, "", Len(df.rows))

Download(label, df) == Shown("download", label, "", Len(df.rows))

\* the st.warning calls of plot_mag7_with_leveraged_etf
PlotMag7Warnings(mag7_data, weighted_portfolio, mags, lev5x, q3, q5) ==
    {Warning("No data available, skipping in the plot.", mag7_data[i].name) :
        i \in {j \in 1..Len(mag7_data) : IsEmpty(mag7_data[j].data)}}
    \cup (IF IsEmpty(weighted_portfolio)
          THEN {Warning("Weighted Mag 7 Portfolio could not be calculated due to missing data.", "")}
          ELSE {})
    \cup (IF IsEmpty(mags) THEN {Warning("ETF data is not available, skipping in the plot.", "MAGS ETF")} ELSE {})
    \cup (IF IsEmpty(lev5x)
          THEN {Warning("ETF data is not available, skipping in the plot.", "Leveraged 5x Mag 7 ETF")}
          ELSE {})
    \cup (IF IsEmpty(q3) THEN {Warning("ETF data is not available, skipping in the plot.", "QQQ3 Leveraged ETF")} ELSE {})
    \cup (IF IsEmpty(q5) THEN {Warning("ETF data is not available, skipping in the plot.", "QQQ5 Leveraged ETF")} ELSE {})

\* the extra st.warning of components.plot_mag7_with_leveraged_etf
PlotMags5xWarnings(weighted_mags_5x) ==
    IF IsEmpty(weighted_mags_5x)
    THEN {Warning("Weighted MAGS 5x Portfolio could not be plotted due to missing data.", "")}
    ELSE {}

\* df.rename(columns={old: new})
RenameColumn(df, old, new) ==
    [tz      |-> df.tz,
     columns |-> [i \in 1..Len(df.columns) |-> IF df.columns[i] = old THEN new ELSE df.columns[i]],
     rows    |-> [i \in 1..Len(df.rows) |->
                    [t    |-> df.rows[i].t,
                     cell |-> [c \in (Range(df.columns) \ {old}) \cup
                                     (IF old \in Range(df.columns) THEN {new} ELSE {}) |->
                                 IF c = new /\ old \in Range(df.columns)
                                 THEN df.rows[i].cell[old] ELSE df.rows[i].cell[c]]]]]

Entry(name, data) == [name |-> name, data |-> data]

\* the loop of the scaled plot: a non-empty frame is read at 'Adj Close'
ScaledLoopRaises(tickers_data) ==
    \E i \in 1..Len(tickers_data) :
        ~IsEmpty(tickers_data[i].data) /\ ~HasColumn(tickers_data[i].data, AdjClose)

\* ------------------------------------------------------------------ state
VARIABLES
    basket,     \* the basket handed to a stage called on its own
    op,         \* the stage applied to it: "none" before any call
    ret,        \* what the stage returned or raised
    exported,   \* to_excel applied to the returned table
    pc,         \* position of the running script ("idle": no script runs)
    exc,        \* the uncaught exception that ended the script, "" if none
    cache,      \* st.cache_data of get_data: ticker -> [cached, value]
    main,       \* the variables the Main tab assigns
    qtab,       \* the variables the QQQ tab assigns
    ui,         \* the elements put on the page so far
    series,     \* the series handed to a function called on its own (None or a frame)
    call,       \* that call: the function and its other arguments
    out,        \* what the call returned or raised
    out2,       \* process_data_all_times applied to its own result
    passed,     \* the object handed to the call, as the caller finds it afterwards
    now,        \* the clock of the memoization caches, in seconds
    provider,   \* what the data provider answers to a request made now
    fetch_cache, \* st.cache_data entry of fetch_stock_data for the key (ticker, start, end)
    get_cache,  \* st.cache_data entry of app.get_data for the same key
    served      \* the last result get_data returned, and how it was obtained

vars == <<basket, op, ret, exported, pc, exc, cache, main, qtab, ui, series, call, out, out2, passed,
         now, provider, fetch_cache, get_cache, served>>

basketVars == <<basket, op, ret, exported>>

seriesVars == <<series, call, out, out2, passed>>

ttlVars == <<now, provider, fetch_cache, get_cache, served>>

stageVars == <<basketVars, seriesVars, ttlVars>>

runVars == <<pc, exc, cache, main, qtab, ui>>

TickerSet == Range(all_tickers)

EmptyCache == [k \in TickerSet |-> [cached |-> FALSE, value |-> None]]

MainInit ==
    [mags_none                  |-> TRUE,
     mags_filtered_data         |-> EmptyFrame,
     leveraged_5x_filtered_data |-> EmptyFrame,
     qqq3_filtered_data         |-> EmptyFrame,
     qqq5_filtered_data         |-> EmptyFrame,
     mag7_data                  |-> <<>>,
     weighted_portfolio         |-> EmptyFrame,
     weighted_mags_5x           |-> EmptyFrame,
     df_combined                |-> EmptyFrame,
     scaled_tickers             |-> <<>>,
     df_scaled                  |-> EmptyFrame]

QtabInit ==
    [qqq_none              |-> TRUE,
     qqq3_none             |-> TRUE,
     qqq5_none             |-> TRUE,
     qqq_filtered_data     |-> EmptyFrame,
     qqq3_mi_filtered_data |-> EmptyFrame,
     qqq5_l_filtered_data  |-> EmptyFrame,
     qqq_proxy_bound       |-> FALSE,
     qqq_proxy             |-> EmptyFrame,
     df_qqq                |-> EmptyFrame,
     scaled_qqq_tickers    |-> <<>>,
     df_scaled_qqq         |-> EmptyFrame]

BasketIdle ==
    /\ basket = <<>>
    /\ op = "none"
    /\ ret = Return(EmptyFrame)
    /\ exported = NoSheet

NoCall == [fn |-> "none", start_time |-> 0, end_time |-> 0, tz_raises |-> FALSE]

SeriesIdle ==
    /\ series = None
    /\ call = NoCall
    /\ out = [raised |-> FALSE, exc |-> "", val |-> EmptyFrame, warning |-> ""]
    /\ out2 = Return(EmptyFrame)
    /\ passed = None

\* no entry memoized
NoEntry == [cached |-> FALSE, stored_at |-> 0, value |-> None, fetched_at |-> 0]

NotServed ==
    [called |-> FALSE, at |-> 0, value |-> None, fetched_at |-> 0, asked |-> FALSE,
     after_none |-> FALSE]

TtlIdle ==
    /\ now = 0
    /\ provider = Answer("error", EmptyFrame)
    /\ fetch_cache = NoEntry
    /\ get_cache = NoEntry
    /\ served = NotServed

StageIdle == BasketIdle /\ SeriesIdle /\ TtlIdle

RunIdle ==
    /\ pc = "idle"
    /\ exc = ""
    /\ cache = EmptyCache
    /\ main = MainInit
    /\ qtab = QtabInit
    /\ ui = {}

\* ---------------------------------------------- the stages called on their own
Init ==
    /\ \E n \in 0..MaxEntities :
         basket \in PlainBaskets(n) \cup ProxyBaskets(n) \cup NamedBaskets(n)
    /\ op = "none"
    /\ ret = Return(EmptyFrame)
    /\ exported = NoSheet
    /\ SeriesIdle
    /\ RunIdle
    /\ TtlIdle

CallCreateDataframe ==
    /\ op = "none"
    /\ pc = "idle"
    /\ op' = "create_dataframe"
    /\ ret' = create_dataframe(basket)
    /\ UNCHANGED <<basket, exported>>
    /\ UNCHANGED <<runVars, seriesVars, ttlVars>>

CallCalculateWeightedPortfolio ==
    /\ op = "none"
    /\ pc = "idle"
    /\ op' = "calculate_weighted_portfolio"
    /\ ret' = calculate_weighted_portfolio(basket)
    /\ UNCHANGED <<basket, exported>>
    /\ UNCHANGED <<runVars, seriesVars, ttlVars>>

CallToExcel ==
    /\ op \in {"create_dataframe", "calculate_weighted_portfolio"}
    /\ ~ret.raised
    /\ op' = "to_excel"
    /\ exported' = to_excel(ret.val)
    /\ UNCHANGED <<basket, ret>>
    /\ UNCHANGED <<runVars, seriesVars, ttlVars>>

Next ==
    \/ CallCreateDataframe
    \/ CallCalculateWeightedPortfolio
    \/ CallToExcel

Spec == Init /\ [][Next]_vars

\* ------------------------------------------------------- one run of app.py
PathOf(ticker) == IF ticker \in {"AAPL", "GOOGL", "META", "NVDA", mags_etf, qqq_etf} THEN 1 ELSE 2

\* the number of bars of a populated answer
BarCounts(ticker) == IF ticker = mags_etf THEN {1, 2} ELSE {2}

\* the answers of the provider for one request, bars from firstBar on
AnswersFrom(ticker, firstBar) ==
    {Answer("error", EmptyFrame), Answer("ok", EmptyFrame)}
    \cup {Answer("ok", ProviderFrame(ticker, firstBar, n, PathOf(ticker))) : n \in BarCounts(ticker)}

\* the provider is asked only when nothing is memoized for the ticker
Answers(ticker) ==
    IF cache[ticker].cached THEN {Answer("error", EmptyFrame)} ELSE AnswersFrom(ticker, 78)

\* get_data(ticker, start, end): the memoized value, else the provider's answer
get_data(c, ticker, answer) ==
    IF c[ticker].cached THEN c[ticker].value ELSE fetch_stock_data(answer)

Memoized(c, ticker, answer) ==
    IF c[ticker].cached THEN c
    ELSE [c EXCEPT ![ticker] = [cached |-> TRUE, value |-> fetch_stock_data(answer)]]

Crash(e) ==
    /\ pc' = "crashed"
    /\ exc' = e

\* app.py 59-87: the five ETF fetches of the Main tab and their normalization
AppFetchEtfs ==
    /\ pc = "app:start"
    /\ \E a1 \in Answers(mags_etf), a2 \in Answers(leveraged_5x_etf), a3 \in Answers(qqq3_etf),
          a4 \in Answers(qqq5_etf), a5 \in Answers(qqq_etf) :
        LET c1 == Memoized(cache, mags_etf, a1)
            c2 == Memoized(c1, leveraged_5x_etf, a2)
            c3 == Memoized(c2, qqq3_etf, a3)
            c4 == Memoized(c3, qqq5_etf, a4)
            c5 == Memoized(c4, qqq_etf, a5)
            mags_data == get_data(cache, mags_etf, a1)
        IN  /\ cache' = c5
            /\ main' = [main EXCEPT
                 !.mags_none = mags_data.none,
                 !.mags_filtered_data = process_data_all_times(mags_data),
                 !.leveraged_5x_filtered_data =
                     process_data_all_times(get_data(c1, leveraged_5x_etf, a2)),
                 !.qqq3_filtered_data = process_data_all_times(get_data(c2, qqq3_etf, a3)),
                 !.qqq5_filtered_data = process_data_all_times(get_data(c3, qqq5_etf, a4))]
    /\ pc' = "app:mags"
    /\ UNCHANGED <<exc, qtab, ui>>
    /\ UNCHANGED stageVars

\* app.py 89-128: the MAGS chart, table and export
AppMagsSection ==
    /\ pc = "app:mags"
    /\ IF main.mags_none \/ IsEmpty(main.mags_filtered_data)
       THEN /\ ui' = ui \cup {Warning("Data for ETF could not be fetched.", mags_etf)}
            /\ pc' = "app:mag7"
            /\ exc' = exc
       ELSE LET r == create_dataframe(<<Entry(mags_etf, main.mags_filtered_data)>>)
                shown == ui \cup {Chart("fig_mags")}
            IN  IF r.raised
                THEN Crash(r.exc) /\ ui' = shown
                ELSE /\ ui' = shown \cup {Table("df_mags", r.val)}
                            \cup (IF ~IsEmpty(r.val)
                                  THEN {Download("Export MAGS ETF Data to Excel",
                                                 to_excel(r.val).sheet)}
                                  ELSE {})
                     /\ pc' = "app:mag7"
                     /\ exc' = exc
    /\ UNCHANGED <<cache, main, qtab>>
    /\ UNCHANGED stageVars

\* a company without data is passed over in silence
Mag7LoopSilent(company, data, filtered_data) == {}

\* app.py 137-145: what one iteration of the Mag 7 loop shows
Mag7LoopShown(company, data, filtered_data) ==
    IF data.none THEN {Shown("error", "Failed to fetch data.", company, 0)}
    ELSE IF IsEmpty(filtered_data) THEN {Warning("No data available.", company)}
    ELSE {}

\* app.py 134-147: one iteration of the Mag 7 loop
AppMag7Iteration ==
    /\ pc = "app:mag7"
    /\ Len(main.mag7_data) < Len(mag7)
    /\ LET m == mag7[Len(main.mag7_data) + 1]
       IN  \E a \in Answers(m.ticker) :
            LET data == get_data(cache, m.ticker, a)
                filtered_data == process_data_all_times(data)
            IN  /\ cache' = Memoized(cache, m.ticker, a)
                /\ ui' = ui \cup Mag7LoopShown(m.company, data, filtered_data)
                /\ IF data.none
                   THEN main' = [main EXCEPT !.mag7_data = Append(@, Entry(m.company, EmptyFrame))]
                   ELSE main' = [main EXCEPT !.mag7_data = Append(@, Entry(m.company, filtered_data))]
    /\ UNCHANGED <<pc, exc, qtab>>
    /\ UNCHANGED stageVars

\* app.py 150-173: the weighted portfolio, its 5x proxy and the Mag 7 chart
AppPortfolio ==
    /\ pc = "app:mag7"
    /\ Len(main.mag7_data) = Len(mag7)
    /\ LET r == calculate_weighted_portfolio(main.mag7_data)
           weighted_mags_5x ==
               IF ~IsEmpty(r.val)
               THEN WithScaledColumn(r.val, Col("", "Weighted MAGS 5x"), WeightedPortfolioCol, 5)
               ELSE EmptyFrame
       IN  IF r.raised
           THEN Crash(r.exc) /\ UNCHANGED <<main, ui>>
           ELSE /\ main' = [main EXCEPT !.weighted_portfolio = r.val,
                                        !.weighted_mags_5x = weighted_mags_5x]
                /\ ui' = ui \cup {Chart("fig_mag7_companies")}
                            \cup PlotMag7Warnings(main.mag7_data, r.val, main.mags_filtered_data,
                                                  main.leveraged_5x_filtered_data,
                                                  main.qqq3_filtered_data, main.qqq5_filtered_data)
                            \cup PlotMags5xWarnings(weighted_mags_5x)
                /\ pc' = "app:combined"
                /\ exc' = exc
    /\ UNCHANGED <<cache, qtab>>
    /\ UNCHANGED stageVars

\* combined_data of app.py 176-180: the seven companies under their tickers,
\* then the four ETFs
CombinedData(m) ==
    [i \in 1..Len(m.mag7_data) |-> Entry(mag7[i].ticker, m.mag7_data[i].data)]
    \o <<Entry(mags_etf, m.mags_filtered_data),
         Entry(leveraged_5x_etf, m.leveraged_5x_filtered_data),
         Entry(qqq3_etf, m.qqq3_filtered_data),
         Entry(qqq5_etf, m.qqq5_filtered_data)>>

\* the table and the export control put on the page whatever the table holds
AppCombinedUnguarded ==
    /\ pc = "app:combined"
    /\ LET r == create_dataframe(CombinedData(main))
       IN  IF r.raised
           THEN Crash(r.exc) /\ UNCHANGED <<main, ui>>
           ELSE /\ main' = [main EXCEPT !.df_combined = r.val]
                /\ ui' = ui \cup
                     {Table("df_combined", r.val),
                      Download("Export Combined Data to Excel", to_excel(r.val).sheet),
                      Warning("No combined data available to display.", "")}
                /\ pc' = "app:scaled"
                /\ exc' = exc
    /\ UNCHANGED <<cache, qtab>>
    /\ UNCHANGED stageVars

\* app.py 175-198: the combined table and its export
AppCombined ==
    /\ pc = "app:combined"
    /\ LET r == create_dataframe(CombinedData(main))
       IN  IF r.raised
           THEN Crash(r.exc) /\ UNCHANGED <<main, ui>>
           ELSE /\ main' = [main EXCEPT !.df_combined = r.val]
                /\ ui' = ui \cup
                     (IF ~IsEmpty(r.val)
                      THEN {Table("df_combined", r.val),
                            Download("Export Combined Data to Excel", to_excel(r.val).sheet)}
                      ELSE {Warning("No combined data available to display.", "")})
                /\ pc' = "app:scaled"
                /\ exc' = exc
    /\ UNCHANGED <<cache, qtab>>
    /\ UNCHANGED stageVars

\* scaled_tickers of app.py 208-218
ScaledTickers(m) ==
    (IF ~IsEmpty(m.mags_filtered_data) THEN <<Entry(mags_etf, m.mags_filtered_data)>> ELSE <<>>)
    \o (IF ~IsEmpty(m.leveraged_5x_filtered_data)
        THEN <<Entry(leveraged_5x_etf, m.leveraged_5x_filtered_data)>> ELSE <<>>)
    \o (IF ~IsEmpty(m.weighted_portfolio)
        THEN <<Entry("Weighted Mag 7 Portfolio",
                     RenameColumn(m.weighted_portfolio, WeightedPortfolioCol, AdjClose))>>
        ELSE <<>>)
    \o (IF ~IsEmpty(m.weighted_mags_5x)
        THEN <<Entry("Weighted MAGS 5x Portfolio",
                     RenameColumn(m.weighted_mags_5x, Col("", "Weighted MAGS 5x"), AdjClose))>>
        ELSE <<>>)

\* app.py 200-247: the scaled chart, its table and export
AppScaled ==
    /\ pc = "app:scaled"
    /\ LET scaled_tickers == ScaledTickers(main)
           r == create_dataframe(scaled_tickers)
       IN  IF Len(scaled_tickers) = 0
           THEN /\ ui' = ui \cup {Warning("No tickers available to plot scaled performance.", "")}
                /\ main' = main
                /\ pc' = "app:qqq"
                /\ exc' = exc
           ELSE IF ScaledLoopRaises(scaled_tickers)
           THEN Crash("KeyError") /\ UNCHANGED <<main, ui>>
           ELSE IF r.raised
           THEN Crash(r.exc) /\ ui' = ui \cup {Chart("fig_scaled")} /\ main' = main
           ELSE /\ main' = [main EXCEPT !.scaled_tickers = scaled_tickers, !.df_scaled = r.val]
                /\ ui' = ui \cup {Chart("fig_scaled")} \cup
                     (IF ~IsEmpty(r.val)
                      THEN {Table("df_scaled", r.val),
                            Download("Export Scaled Data to Excel", to_excel(r.val).sheet)}
                      ELSE {Warning("No scaled data available to display.", "")})
                /\ pc' = "app:qqq"
                /\ exc' = exc
    /\ UNCHANGED <<cache, qtab>>
    /\ UNCHANGED stageVars

\* app.py 249-272: the three fetches of the QQQ tab and the proxies
AppQqqFetch ==
    /\ pc = "app:qqq"
    /\ \E a1 \in Answers(qqq_etf), a2 \in Answers(qqq3_etf), a3 \in Answers(qqq5_etf) :
        LET c1 == Memoized(cache, qqq_etf, a1)
            c2 == Memoized(c1, qqq3_etf, a2)
            qqq_data == get_data(cache, qqq_etf, a1)
            qqq3_mi_data == get_data(c1, qqq3_etf, a2)
            qqq5_l_data == get_data(c2, qqq5_etf, a3)
            qqq_filtered_data == process_data_all_times(qqq_data)
        IN  /\ cache' = Memoized(c2, qqq5_etf, a3)
            /\ qtab' = [qtab EXCEPT
                 !.qqq_none = qqq_data.none,
                 !.qqq3_none = qqq3_mi_data.none,
                 !.qqq5_none = qqq5_l_data.none,
                 !.qqq_filtered_data = qqq_filtered_data,
                 !.qqq3_mi_filtered_data = process_data_all_times(qqq3_mi_data),
                 !.qqq5_l_filtered_data = process_data_all_times(qqq5_l_data),
                 !.qqq_proxy_bound = ~IsEmpty(qqq_filtered_data),
                 !.qqq_proxy = IF ~IsEmpty(qqq_filtered_data)
                               THEN QqqProxy(qqq_filtered_data) ELSE EmptyFrame]
            /\ ui' = ui \cup (IF IsEmpty(qqq_filtered_data)
                              THEN {Warning("QQQ ETF data is not available to create proxies.", "")}
                              ELSE {})
    /\ pc' = "app:qqq_table"
    /\ UNCHANGED <<exc, main>>
    /\ UNCHANGED stageVars

\* the st.warning calls of the QQQ chart, app.py 283-345
QqqChartWarnings(q) ==
    (IF q.qqq_none \/ IsEmpty(q.qqq_filtered_data)
     THEN {Warning("ETF data is not available, skipping in the plot.", "QQQ")} ELSE {})
    \cup (IF q.qqq3_none \/ IsEmpty(q.qqq3_mi_filtered_data)
          THEN {Warning("ETF data is not available, skipping in the plot.", "qqq3.mi Leveraged")}
          ELSE {})
    \cup (IF q.qqq5_none \/ IsEmpty(q.qqq5_l_filtered_data)
          THEN {Warning("ETF data is not available, skipping in the plot.", "qqq5.l Leveraged")}
          ELSE {})
    \cup (IF ~IsEmpty(q.qqq_filtered_data) /\ HasColumn(q.qqq_proxy, ProxyQQQ3) THEN {}
          ELSE {Warning("data is not available, skipping in the plot.", "PROXY QQQ3")})
    \cup (IF ~IsEmpty(q.qqq_filtered_data) /\ HasColumn(q.qqq_proxy, ProxyQQQ5) THEN {}
          ELSE {Warning("data is not available, skipping in the plot.", "PROXY QQQ5")})

\* the dict of app.py 366-372
QqqTableData(q) ==
    <<Entry(qqq_etf, q.qqq_filtered_data),
      Entry(qqq3_etf, q.qqq3_mi_filtered_data),
      Entry(qqq5_etf, q.qqq5_l_filtered_data),
      Entry("PROXY QQQ3", IF ~IsEmpty(q.qqq_proxy) THEN SelectColumn(q.qqq_proxy, ProxyQQQ3)
                          ELSE EmptyFrame),
      Entry("PROXY QQQ5", IF ~IsEmpty(q.qqq_proxy) THEN SelectColumn(q.qqq_proxy, ProxyQQQ5)
                          ELSE EmptyFrame)>>

\* app.py 274-386: the QQQ chart, the table of QQQ and its proxies, the export
AppQqqTable ==
    /\ pc = "app:qqq_table"
    /\ IF /\ (qtab.qqq_none \/ IsEmpty(qtab.qqq_filtered_data))
          /\ (qtab.qqq3_none \/ IsEmpty(qtab.qqq3_mi_filtered_data))
          /\ (qtab.qqq5_none \/ IsEmpty(qtab.qqq5_l_filtered_data))
       THEN /\ ui' = ui \cup {Warning("Data for QQQ, qqq3.mi, and qqq5.l could not be fetched.", "")}
            /\ pc' = "app:qqq_scaled"
            /\ UNCHANGED <<exc, qtab>>
       ELSE LET shown == ui \cup QqqChartWarnings(qtab) \cup {Chart("fig_qqq")}
                r == create_dataframe(QqqTableData(qtab))
            IN  IF ~qtab.qqq_proxy_bound
                THEN Crash("NameError") /\ ui' = shown /\ qtab' = qtab
                ELSE IF r.raised
                THEN Crash(r.exc) /\ ui' = shown /\ qtab' = qtab
                ELSE /\ qtab' = [qtab EXCEPT !.df_qqq = r.val]
                     /\ ui' = shown \cup {Table("df_qqq", r.val)} \cup
                          (IF ~IsEmpty(r.val)
                           THEN {Download("Export QQQ, qqq3.mi, qqq5.l, PROXY QQQ3, and PROXY QQQ5 Data to Excel",
                                          to_excel(r.val).sheet)}
                           ELSE {})
                     /\ pc' = "app:qqq_scaled"
                     /\ exc' = exc
    /\ UNCHANGED <<cache, main>>
    /\ UNCHANGED stageVars

\* scaled_qqq_tickers of app.py 392-402
ScaledQqqTickers(q) ==
    (IF ~IsEmpty(q.qqq_filtered_data)
     THEN <<Entry(qqq_etf, q.qqq_filtered_data)>>
          \o (IF HasColumn(q.qqq_proxy, ProxyQQQ3)
              THEN <<Entry("PROXY QQQ3", SelectColumn(q.qqq_proxy, ProxyQQQ3))>> ELSE <<>>)
          \o (IF HasColumn(q.qqq_proxy, ProxyQQQ5)
              THEN <<Entry("PROXY QQQ5", SelectColumn(q.qqq_proxy, ProxyQQQ5))>> ELSE <<>>)
     ELSE <<>>)
    \o (IF ~IsEmpty(q.qqq3_mi_filtered_data)
        THEN <<Entry(qqq3_etf, q.qqq3_mi_filtered_data)>> ELSE <<>>)
    \o (IF ~IsEmpty(q.qqq5_l_filtered_data)
        THEN <<Entry(qqq5_etf, q.qqq5_l_filtered_data)>> ELSE <<>>)

\* app.py 388-464: the scaled chart of the QQQ tab, its table and export
AppQqqScaled ==
    /\ pc = "app:qqq_scaled"
    /\ LET scaled_qqq_tickers == ScaledQqqTickers(qtab)
           r == create_dataframe(scaled_qqq_tickers)
       IN  IF Len(scaled_qqq_tickers) = 0
           THEN /\ ui' = ui \cup {Warning("No tickers available to plot scaled relative performance.", "")}
                /\ pc' = "app:done"
                /\ UNCHANGED <<exc, qtab>>
           ELSE IF ~IsEmpty(qtab.qqq_filtered_data) /\ ~qtab.qqq_proxy_bound
           THEN Crash("NameError") /\ UNCHANGED <<qtab, ui>>
           ELSE IF ScaledLoopRaises(scaled_qqq_tickers)
           THEN Crash("KeyError") /\ UNCHANGED <<qtab, ui>>
           ELSE IF r.raised
           THEN Crash(r.exc) /\ ui' = ui \cup {Chart("fig_scaled_qqq")} /\ qtab' = qtab
           ELSE /\ qtab' = [qtab EXCEPT !.scaled_qqq_tickers = scaled_qqq_tickers,
                                        !.df_scaled_qqq = r.val]
                /\ ui' = ui \cup {Chart("fig_scaled_qqq"), Table("df_scaled_qqq", r.val)} \cup
                     (IF ~IsEmpty(r.val)
                      THEN {Download("Export Scaled QQQ and Proxies Data to Excel",
                                     to_excel(r.val).sheet)}
                      ELSE {})
                /\ pc' = "app:done"
                /\ exc' = exc
    /\ UNCHANGED <<cache, main>>
    /\ UNCHANGED stageVars

InitApp ==
    /\ StageIdle
    /\ pc = "app:start"
    /\ exc = ""
    /\ cache = EmptyCache
    /\ main = MainInit
    /\ qtab = QtabInit
    /\ ui = {}

NextApp ==
    \/ AppFetchEtfs
    \/ AppMagsSection
    \/ AppMag7Iteration
    \/ AppPortfolio
    \/ AppCombined
    \/ AppScaled
    \/ AppQqqFetch
    \/ AppQqqTable
    \/ AppQqqScaled

SpecApp == InitApp /\ [][NextApp]_vars

\* ------------------------------------------------- session-window filter (4.2)
\* datetime.time(h, m) counted in 30-minute bars of the day
etf_start_time == 18

etf_end_time == 35

company_start_time == 31

company_end_time == 44

\* the clock time of day of the index label t, as the index shows it
TimeOfDay(tz, t) == WallClock(tz, t) % 48

\* the end of the window left out
BetweenTimeOpenEnd(df, start_time, end_time) ==
    [df EXCEPT !.rows = SelectSeq(df.rows, LAMBDA r :
        IF start_time <= end_time
        THEN start_time <= TimeOfDay(df.tz, r.t) /\ TimeOfDay(df.tz, r.t) < end_time
        ELSE start_time <= TimeOfDay(df.tz, r.t) \/ TimeOfDay(df.tz, r.t) < end_time)]

\* DataFrame.between_time(start, end): both ends included; a start after the
\* end selects the times from start to midnight and from midnight to end
\* start_time later than end_time taken as a window with nothing in it
BetweenTimeNoWrap(df, start_time, end_time) ==
    [df EXCEPT !.rows = SelectSeq(df.rows, LAMBDA r :
        start_time <= TimeOfDay(df.tz, r.t) /\ TimeOfDay(df.tz, r.t) <= end_time)]

BetweenTime(df, start_time, end_time) ==
    [df EXCEPT !.rows = SelectSeq(df.rows, LAMBDA r :
        IF start_time <= end_time
        THEN start_time <= TimeOfDay(df.tz, r.t) /\ TimeOfDay(df.tz, r.t) <= end_time
        ELSE start_time <= TimeOfDay(df.tz, r.t) \/ TimeOfDay(df.tz, r.t) <= end_time)]

\* filter_data_by_time_range: only a naive index is converted to Europe/Berlin
filter_data_by_time_range(data, start_time, end_time) ==
    IF data.none \/ IsEmpty(data.df) THEN EmptyFrame
    ELSE IF data.df.tz = "naive"
    THEN BetweenTime(TzConvert(TzLocalizeUTC(data.df), "Europe/Berlin"), start_time, end_time)
    ELSE BetweenTime(data.df, start_time, end_time)

\* streamlit_app.to_excel: the frame is written as it is; the writer refuses
\* a timezone-aware datetime in any cell, index included
st_to_excel(df) ==
    IF IsAware(df) /\ Len(df.rows) > 0 THEN Raise("ValueError") ELSE Return(df)

\* the table of the per-ticker export: pct_change()*100 of 'Adj Close' without
\* its missing values, the timestamps moved to a column by reset_index
PctChangeFrame(ticker, data) ==
    LET pct == PctChange100(Column(data, AdjClose))
        all == [i \in 1..Len(data.rows) |->
                  [t |-> data.rows[i].t, cell |-> [c \in {PctCol(ticker)} |-> pct[i]]]]
    IN  [tz      |-> data.tz,
         columns |-> <<PctCol(ticker)>>,
         rows    |-> SelectSeq(all, LAMBDA r : ~IsNaN(r.cell[PctCol(ticker)]))]

\* the export loop of streamlit_app.py 577-591 and 739-753 from entry i on:
\* the elements shown and the exception that ends it, if any
RECURSIVE PctExportLoop(_, _, _)
PctExportLoop(tickers_data, i, shown) ==
    IF i > Len(tickers_data) THEN [raised |-> FALSE, exc |-> "", shown |-> shown]
    ELSE IF IsEmpty(tickers_data[i].data) THEN PctExportLoop(tickers_data, i + 1, shown)
    ELSE IF ~HasColumn(tickers_data[i].data, AdjClose)
    THEN [raised |-> TRUE, exc |-> "KeyError", shown |-> shown]
    ELSE LET df_pct == PctChangeFrame(tickers_data[i].name, tickers_data[i].data)
             excel_pct == st_to_excel(df_pct)
         IN  IF excel_pct.raised THEN [raised |-> TRUE, exc |-> excel_pct.exc, shown |-> shown]
             ELSE PctExportLoop(tickers_data, i + 1,
                    shown \cup {Shown("download", "Export Percentage Changes to Excel",
                                      tickers_data[i].name, Len(excel_pct.val.rows))})

\* ----------------------------------------------- one run of streamlit_app.py
\* the provider's answers to streamlit_app.py: the companies' bars are late
\* bars of the New York session
StAnswers(ticker) ==
    IF cache[ticker].cached THEN {Answer("error", EmptyFrame)}
    ELSE AnswersFrom(ticker, IF \E i \in 1..Len(mag7) : mag7[i].ticker = ticker THEN 87 ELSE 78)

\* a table and its export as streamlit_app.py shows them: the elements, and
\* the exception of to_excel if it raises
StTableAndExport(name, label, df, emptyWarning, showEmptyTable) ==
    IF ~IsEmpty(df)
    THEN LET x == st_to_excel(df)
         IN  [raised |-> x.raised, exc |-> x.exc,
              shown |-> {Table(name, df)} \cup (IF x.raised THEN {} ELSE {Download(label, x.val)})]
    ELSE [raised |-> FALSE, exc |-> "",
          shown |-> (IF showEmptyTable THEN {Table(name, df)} ELSE {})
                    \cup {Warning(emptyWarning, "")}]

\* streamlit_app.py 415-433: the four ETF fetches of the Main tab, filtered
StFetchEtfs ==
    /\ pc = "st:start"
    /\ \E a1 \in StAnswers(mags_etf), a2 \in StAnswers(leveraged_5x_etf),
          a3 \in StAnswers(qqq3_etf), a4 \in StAnswers(qqq5_etf) :
        LET c1 == Memoized(cache, mags_etf, a1)
            c2 == Memoized(c1, leveraged_5x_etf, a2)
            c3 == Memoized(c2, qqq3_etf, a3)
            mags_data == get_data(cache, mags_etf, a1)
        IN  /\ cache' = Memoized(c3, qqq5_etf, a4)
            /\ main' = [main EXCEPT
                 !.mags_none = mags_data.none,
                 !.mags_filtered_data =
                     filter_data_by_time_range(mags_data, etf_start_time, etf_end_time),
                 !.leveraged_5x_filtered_data =
                     filter_data_by_time_range(get_data(c1, leveraged_5x_etf, a2),
                                               etf_start_time, etf_end_time),
                 !.qqq3_filtered_data =
                     filter_data_by_time_range(get_data(c2, qqq3_etf, a3),
                                               etf_start_time, etf_end_time),
                 !.qqq5_filtered_data =
                     filter_data_by_time_range(get_data(c3, qqq5_etf, a4),
                                               etf_start_time, etf_end_time)]
    /\ pc' = "st:mags"
    /\ UNCHANGED <<exc, qtab, ui>>
    /\ UNCHANGED stageVars

\* streamlit_app.py 435-472: the MAGS chart, table and export
StMagsSection ==
    /\ pc = "st:mags"
    /\ IF main.mags_none \/ IsEmpty(main.mags_filtered_data)
       THEN /\ ui' = ui \cup {Warning("Data for ETF could not be fetched.", mags_etf)}
            /\ pc' = "st:mag7"
            /\ exc' = exc
       ELSE LET r == create_dataframe(<<Entry(mags_etf, main.mags_filtered_data)>>)
                x == StTableAndExport("df_mags", "Export MAGS ETF Data to Excel", r.val,
                                      "No data available to export for MAGS ETF.", TRUE)
            IN  IF r.raised
                THEN Crash(r.exc) /\ ui' = ui \cup {Chart("fig_mags")}
                ELSE /\ ui' = ui \cup {Chart("fig_mags")} \cup x.shown
                     /\ IF x.raised THEN Crash(x.exc) ELSE pc' = "st:mag7" /\ exc' = exc
    /\ UNCHANGED <<cache, main, qtab>>
    /\ UNCHANGED stageVars

\* streamlit_app.py 478-489: one iteration of the Mag 7 loop
StMag7Iteration ==
    /\ pc = "st:mag7"
    /\ Len(main.mag7_data) < Len(mag7)
    /\ LET m == mag7[Len(main.mag7_data) + 1]
       IN  \E a \in StAnswers(m.ticker) :
            LET data == get_data(cache, m.ticker, a)
                filtered_data ==
                    filter_data_by_time_range(data, company_start_time, company_end_time)
            IN  /\ cache' = Memoized(cache, m.ticker, a)
                /\ IF data.none
                   THEN /\ ui' = ui \cup {Shown("error", "Failed to fetch data.", m.company, 0)}
                        /\ main' = [main EXCEPT !.mag7_data = Append(@, Entry(m.company, EmptyFrame))]
                   ELSE /\ ui' = ui \cup (IF IsEmpty(filtered_data)
                                          THEN {Warning("No data available in the specified time range.",
                                                        m.company)}
                                          ELSE {})
                        /\ main' = [main EXCEPT !.mag7_data = Append(@, Entry(m.company, filtered_data))]
    /\ UNCHANGED <<pc, exc, qtab>>
    /\ UNCHANGED stageVars

\* streamlit_app.py 491-504: the weighted portfolio and the Mag 7 chart
StPortfolio ==
    /\ pc = "st:mag7"
    /\ Len(main.mag7_data) = Len(mag7)
    /\ LET r == calculate_weighted_portfolio(main.mag7_data)
       IN  IF r.raised
           THEN Crash(r.exc) /\ UNCHANGED <<main, ui>>
           ELSE /\ main' = [main EXCEPT !.weighted_portfolio = r.val]
                /\ ui' = ui \cup {Chart("fig_mag7_companies")}
                            \cup PlotMag7Warnings(main.mag7_data, r.val, main.mags_filtered_data,
                                                  main.leveraged_5x_filtered_data,
                                                  main.qqq3_filtered_data, main.qqq5_filtered_data)
                /\ pc' = "st:combined"
                /\ exc' = exc
    /\ UNCHANGED <<cache, qtab>>
    /\ UNCHANGED stageVars

\* streamlit_app.py 506-527: the combined table and its export
StCombined ==
    /\ pc = "st:combined"
    /\ LET r == create_dataframe(CombinedData(main))
           x == StTableAndExport("df_combined", "Export Combined Tickers Data to Excel", r.val,
                                 "No combined data available to display.", FALSE)
       IN  IF r.raised
           THEN Crash(r.exc) /\ UNCHANGED <<main, ui>>
           ELSE /\ main' = [main EXCEPT !.df_combined = r.val]
                /\ ui' = ui \cup x.shown
                /\ IF x.raised THEN Crash(x.exc) ELSE pc' = "st:scaled" /\ exc' = exc
    /\ UNCHANGED <<cache, qtab>>
    /\ UNCHANGED stageVars

\* scaled_tickers of streamlit_app.py 536-546
StScaledTickers(m) ==
    (IF ~IsEmpty(m.mags_filtered_data) THEN <<Entry(mags_etf, m.mags_filtered_data)>> ELSE <<>>)
    \o (IF ~IsEmpty(m.leveraged_5x_filtered_data)
        THEN <<Entry(leveraged_5x_etf, m.leveraged_5x_filtered_data)>> ELSE <<>>)
    \o (IF ~IsEmpty(m.weighted_portfolio)
        THEN <<Entry("Weighted Mag 7 Portfolio",
                     RenameColumn(m.weighted_portfolio, WeightedPortfolioCol, AdjClose))>>
        ELSE <<>>)

\* the scaled chart, its table and export, the bar chart, the per-ticker
\* exports and the histogram of streamlit_app.py 549-598 and 711-760
StScaledSection(tickers_data, chart, table, label, emptyWarning, showEmptyTable, noneWarning) ==
    IF Len(tickers_data) = 0
    THEN [raised |-> FALSE, exc |-> "", shown |-> {Warning(noneWarning, "")}, df |-> EmptyFrame]
    ELSE LET r == create_dataframe(tickers_data)
             x == StTableAndExport(table, label, r.val, emptyWarning, showEmptyTable)
             loop == PctExportLoop(tickers_data, 1, {})
         IN  IF ScaledLoopRaises(tickers_data)
             THEN [raised |-> TRUE, exc |-> "KeyError", shown |-> {}, df |-> EmptyFrame]
             ELSE IF r.raised
             THEN [raised |-> TRUE, exc |-> r.exc, shown |-> {Chart(chart)}, df |-> EmptyFrame]
             ELSE IF x.raised
             THEN [raised |-> TRUE, exc |-> x.exc, shown |-> {Chart(chart)} \cup x.shown, df |-> r.val]
             ELSE IF loop.raised
             THEN [raised |-> TRUE, exc |-> loop.exc,
                   shown |-> {Chart(chart), Chart("fig_bar")} \cup x.shown \cup loop.shown,
                   df |-> r.val]
             ELSE [raised |-> FALSE, exc |-> "",
                   shown |-> {Chart(chart), Chart("fig_bar"), Chart("fig_hist")}
                             \cup x.shown \cup loop.shown,
                   df |-> r.val]

\* streamlit_app.py 529-598: the scaled section of the Main tab
StScaled ==
    /\ pc = "st:scaled"
    /\ LET scaled_tickers == StScaledTickers(main)
           x == StScaledSection(scaled_tickers, "fig_scaled", "df_scaled",
                                "Export Scaled Tickers Data to Excel",
                                "No scaled data available to display.", FALSE,
                                "No tickers available to plot scaled performance.")
       IN  /\ ui' = ui \cup x.shown
                \cup (IF IsEmpty(main.weighted_portfolio)
                      THEN {Warning("Weighted Mag 7 Portfolio could not be added to the scaled plot due to missing data.", "")}
                      ELSE {})
           /\ main' = [main EXCEPT !.scaled_tickers = scaled_tickers, !.df_scaled = x.df]
           /\ IF x.raised THEN Crash(x.exc) ELSE pc' = "st:qqq" /\ exc' = exc
    /\ UNCHANGED <<cache, qtab>>
    /\ UNCHANGED stageVars

\* streamlit_app.py 600-616: the three fetches of the QQQ tab, filtered
StQqqFetch ==
    /\ pc = "st:qqq"
    /\ \E a1 \in StAnswers(qqq_etf), a2 \in StAnswers(qqq3_etf), a3 \in StAnswers(qqq5_etf) :
        LET c1 == Memoized(cache, qqq_etf, a1)
            c2 == Memoized(c1, qqq3_etf, a2)
            qqq_data == get_data(cache, qqq_etf, a1)
            qqq3_mi_data == get_data(c1, qqq3_etf, a2)
            qqq5_l_data == get_data(c2, qqq5_etf, a3)
        IN  /\ cache' = Memoized(c2, qqq5_etf, a3)
            /\ qtab' = [qtab EXCEPT
                 !.qqq_none = qqq_data.none,
                 !.qqq3_none = qqq3_mi_data.none,
                 !.qqq5_none = qqq5_l_data.none,
                 !.qqq_filtered_data =
                     filter_data_by_time_range(qqq_data, etf_start_time, etf_end_time),
                 !.qqq3_mi_filtered_data =
                     filter_data_by_time_range(qqq3_mi_data, etf_start_time, etf_end_time),
                 !.qqq5_l_filtered_data =
                     filter_data_by_time_range(qqq5_l_data, etf_start_time, etf_end_time)]
    /\ pc' = "st:qqq_table"
    /\ UNCHANGED <<exc, main, ui>>
    /\ UNCHANGED stageVars

\* the st.warning calls of the QQQ chart, streamlit_app.py 626-658
StQqqChartWarnings(q) ==
    (IF q.qqq_none \/ IsEmpty(q.qqq_filtered_data)
     THEN {Warning("ETF data is not available, skipping in the plot.", "QQQ")} ELSE {})
    \cup (IF q.qqq3_none \/ IsEmpty(q.qqq3_mi_filtered_data)
          THEN {Warning("ETF data is not available, skipping in the plot.", "qqq3.mi Leveraged")}
          ELSE {})
    \cup (IF q.qqq5_none \/ IsEmpty(q.qqq5_l_filtered_data)
          THEN {Warning("ETF data is not available, skipping in the plot.", "qqq5.l Leveraged")}
          ELSE {})

\* streamlit_app.py 618-697: the QQQ chart, table and export
StQqqTable ==
    /\ pc = "st:qqq_table"
    /\ IF /\ (qtab.qqq_none \/ IsEmpty(qtab.qqq_filtered_data))
          /\ (qtab.qqq3_none \/ IsEmpty(qtab.qqq3_mi_filtered_data))
          /\ (qtab.qqq5_none \/ IsEmpty(qtab.qqq5_l_filtered_data))
       THEN /\ ui' = ui \cup {Warning("Data for all QQQ ETFs could not be fetched.", "")}
            /\ pc' = "st:qqq_scaled"
            /\ UNCHANGED <<exc, qtab>>
       ELSE LET shown == ui \cup StQqqChartWarnings(qtab) \cup {Chart("fig_qqq")}
                r == create_dataframe(<<Entry(qqq_etf, qtab.qqq_filtered_data),
                                        Entry(qqq3_etf, qtab.qqq3_mi_filtered_data),
                                        Entry(qqq5_etf, qtab.qqq5_l_filtered_data)>>)
                x == StTableAndExport("df_qqq", "Export QQQ ETFs Data to Excel", r.val,
                                      "No data available to export for QQQ ETFs.", TRUE)
            IN  IF r.raised
                THEN Crash(r.exc) /\ ui' = shown /\ qtab' = qtab
                ELSE /\ qtab' = [qtab EXCEPT !.df_qqq = r.val]
                     /\ ui' = shown \cup x.shown
                     /\ IF x.raised THEN Crash(x.exc) ELSE pc' = "st:qqq_scaled" /\ exc' = exc
    /\ UNCHANGED <<cache, main>>
    /\ UNCHANGED stageVars

\* scaled_qqq_tickers of streamlit_app.py 703-709
StScaledQqqTickers(q) ==
    (IF ~q.qqq_none /\ ~IsEmpty(q.qqq_filtered_data)
     THEN <<Entry(qqq_etf, q.qqq_filtered_data)>> ELSE <<>>)
    \o (IF ~q.qqq3_none /\ ~IsEmpty(q.qqq3_mi_filtered_data)
        THEN <<Entry(qqq3_etf, q.qqq3_mi_filtered_data)>> ELSE <<>>)
    \o (IF ~q.qqq5_none /\ ~IsEmpty(q.qqq5_l_filtered_data)
        THEN <<Entry(qqq5_etf, q.qqq5_l_filtered_data)>> ELSE <<>>)

\* streamlit_app.py 699-760: the scaled section of the QQQ tab
StQqqScaled ==
    /\ pc = "st:qqq_scaled"
    /\ LET scaled_qqq_tickers == StScaledQqqTickers(qtab)
           x == StScaledSection(scaled_qqq_tickers, "fig_scaled_qqq", "df_scaled_qqq",
                                "Export Scaled QQQ ETFs Data to Excel",
                                "No scaled data available to display for QQQ ETFs.", FALSE,
                                "No data available to plot scaled performance for QQQ ETFs.")
       IN  /\ ui' = ui \cup x.shown
           /\ qtab' = [qtab EXCEPT !.scaled_qqq_tickers = scaled_qqq_tickers,
                                   !.df_scaled_qqq = x.df]
           /\ IF x.raised THEN Crash(x.exc) ELSE pc' = "st:done" /\ exc' = exc
    /\ UNCHANGED <<cache, main>>
    /\ UNCHANGED stageVars

InitStreamlit ==
    /\ StageIdle
    /\ pc = "st:start"
    /\ exc = ""
    /\ cache = EmptyCache
    /\ main = MainInit
    /\ qtab = QtabInit
    /\ ui = {}

NextStreamlit ==
    \/ StFetchEtfs
    \/ StMagsSection
    \/ StMag7Iteration
    \/ StPortfolio
    \/ StCombined
    \/ StScaled
    \/ StQqqFetch
    \/ StQqqTable
    \/ StQqqScaled

SpecStreamlit == InitStreamlit /\ [][NextStreamlit]_vars

\* ------------------------------------------- the functions of one series
\* the exception of the pandas call passed on to the caller
process_data_all_times_reraise(data, tz_raises) ==
    IF data.none \/ IsEmpty(data.df) THEN Return(EmptyFrame)
    ELSE IF tz_raises THEN Raise("Exception")
    ELSE Return(process_data_all_times(data))

\* process_data_all_times with its except branches: tz_raises says that the
\* pandas call of the branch taken (tz_localize/tz_convert) raises
process_data_all_times_try(data, tz_raises) ==
    IF data.none \/ IsEmpty(data.df) THEN Return(EmptyFrame)
    ELSE IF tz_raises THEN Return(EmptyFrame)
    ELSE Return(process_data_all_times(data))

\* the caller's object after process_data_all_times(data): the naive branch
\* assigns data.index on the object itself, the aware branch rebinds the
\* local name to a new frame
process_data_all_times_arg(data, tz_raises) ==
    IF data.none \/ IsEmpty(data.df) THEN data
    ELSE IF data.df.tz = "naive" /\ ~tz_raises
    THEN Some(TzConvert(TzLocalizeUTC(data.df), "Europe/Berlin"))
    ELSE data

\* the caller's object after filter_data_by_time_range(data, ...): the same
\* assignment of data.index for a naive index; between_time gives a new frame
filter_data_by_time_range_arg(data) ==
    IF data.none \/ IsEmpty(data.df) THEN data
    ELSE IF data.df.tz = "naive"
    THEN Some(TzConvert(TzLocalizeUTC(data.df), "Europe/Berlin"))
    ELSE data

\* data.sort_index(): the rows by ascending index label
SortIndex(df) ==
    LET idx == SortedSeq(IndexSet(df))
    IN  [df EXCEPT !.rows = [i \in 1..Len(idx) |->
                               df.rows[CHOOSE j \in 1..Len(df.rows) : df.rows[j].t = idx[i]]]]

\* the first position, missing or not
FirstIndex(s) == IF Len(s) = 0 THEN 0 ELSE 1

\* Series.first_valid_index() as a position: the first non-missing value,
\* 0 when there is none (None)
FirstValidIndex(s) ==
    IF \A i \in 1..Len(s) : IsNaN(s[i]) THEN 0
    ELSE CHOOSE i \in 1..Len(s) : ~IsNaN(s[i]) /\ \A j \in 1..(i - 1) : IsNaN(s[j])

\* one iteration of the scaling loop: the trace added to the figure (x the
\* index, y = data['Adj Close'] / first_price * 100), or the warning shown
ScaledTrace(data) ==
    IF IsEmpty(data)
    THEN [plotted |-> FALSE, warning |-> "No data available", trace |-> EmptyFrame]
    ELSE LET sorted == SortIndex(data)
             prices == Column(sorted, AdjClose)
             first_valid_index == FirstValidIndex(prices)
         IN  IF first_valid_index # 0
             THEN LET first_price == prices[first_valid_index]
                  IN  [plotted |-> TRUE,
                       warning |-> "",
                       trace   |-> [sorted EXCEPT !.rows =
                                      [i \in 1..Len(sorted.rows) |->
                                         [t    |-> sorted.rows[i].t,
                                          cell |-> [c \in {AdjClose} |->
                                                      RMul(RDiv(prices[i], first_price), R(100))]]]]]
             ELSE [plotted |-> FALSE, warning |-> "No valid adjusted close prices",
                   trace |-> EmptyFrame]

\* pct_change = data['Adj Close'].pct_change() * 100; pct_change.dropna():
\* the trace of the histogram and of the bar chart (x the index, y the values)
PctChangeTrace(data) ==
    IF IsEmpty(data) THEN EmptyFrame
    ELSE LET pct == PctChange100(Column(data, AdjClose))
             all == [i \in 1..Len(data.rows) |->
                       [t |-> data.rows[i].t, cell |-> [c \in {AdjClose} |-> pct[i]]]]
         IN  [data EXCEPT !.rows = SelectSeq(all, LAMBDA r : ~IsNaN(r.cell[AdjClose]))]

\* the inputs: a series is labelled with a zone or naive, has the bars of
\* `present`, misses the values of `missing`, and comes in either order
Zones == {"naive", "Europe/Berlin", "America/New_York"}

Reverse(s) == [i \in 1..Len(s) |-> s[Len(s) + 1 - i]]

InputFrame(tz, present, missing, p, descending) ==
    LET idx == IF descending THEN Reverse(SortedSeq(present)) ELSE SortedSeq(present)
    IN  [tz      |-> tz,
         columns |-> <<AdjClose>>,
         rows    |-> [i \in 1..Len(idx) |->
                        [t    |-> idx[i],
                         cell |-> [c \in {AdjClose} |->
                                     IF idx[i] \in missing THEN NaN
                                     ELSE R(PriceAt(p, idx[i]))]]]]

InputFrames ==
    {EmptyFrame} \cup
    {InputFrame(x[1], x[2], x[3], x[4], x[5]) :
        x \in {y \in Zones \X (SUBSET Times) \X (SUBSET Times) \X Paths \X BOOLEAN :
                 y[2] # {} /\ y[3] \subseteq y[2]}}

SeriesInputs == {None} \cup {Some(df) : df \in InputFrames}

\* the clock times a window is drawn from, in 30-minute bars of the day
WindowTimes == {0, 4, 5, 40, 41, 43, 47}

\* what a call on a series gave: the result, and the warning shown instead
\* of a trace
SeriesResult(r, warning) ==
    [raised |-> r.raised, exc |-> r.exc, val |-> r.val, warning |-> warning]

InitSeries ==
    /\ BasketIdle
    /\ RunIdle
    /\ TtlIdle
    /\ series \in SeriesInputs
    /\ call = NoCall
    /\ out = SeriesResult(Return(EmptyFrame), "")
    /\ out2 = Return(EmptyFrame)
    /\ passed = series

CallProcessDataAllTimes ==
    /\ call.fn = "none"
    /\ pc = "idle"
    /\ \E tz_raises \in BOOLEAN :
         /\ call' = [NoCall EXCEPT !.fn = "process_data_all_times", !.tz_raises = tz_raises]
         /\ out' = SeriesResult(process_data_all_times_try(series, tz_raises), "")
         /\ passed' = process_data_all_times_arg(series, tz_raises)
    /\ UNCHANGED <<series, out2>>
    /\ UNCHANGED <<basketVars, runVars, ttlVars>>

\* the function applied to its own result
CallProcessDataAllTimesAgain ==
    /\ call.fn = "process_data_all_times"
    /\ ~out.raised
    /\ call' = [call EXCEPT !.fn = "process_data_all_times twice"]
    /\ out2' = process_data_all_times_try(Some(out.val), call.tz_raises)
    /\ UNCHANGED <<series, out, passed>>
    /\ UNCHANGED <<basketVars, runVars, ttlVars>>

CallFilterDataByTimeRange ==
    /\ call.fn = "none"
    /\ pc = "idle"
    /\ \E start_time \in WindowTimes, end_time \in WindowTimes :
         /\ call' = [NoCall EXCEPT !.fn = "filter_data_by_time_range",
                                   !.start_time = start_time, !.end_time = end_time]
         /\ out' = SeriesResult(Return(filter_data_by_time_range(series, start_time, end_time)), "")
    /\ passed' = filter_data_by_time_range_arg(series)
    /\ UNCHANGED <<series, out2>>
    /\ UNCHANGED <<basketVars, runVars, ttlVars>>

\* the scaling loop over the one-entry dict {ticker: series}
CallScaledTrace ==
    /\ call.fn = "none"
    /\ pc = "idle"
    /\ ~series.none
    /\ call' = [NoCall EXCEPT !.fn = "scaled"]
    /\ out' = SeriesResult(Return(ScaledTrace(series.df).trace), ScaledTrace(series.df).warning)
    /\ UNCHANGED <<series, out2, passed>>
    /\ UNCHANGED <<basketVars, runVars, ttlVars>>

\* the percentage loop over the one-entry dict {ticker: series}
CallPctChangeTrace ==
    /\ call.fn = "none"
    /\ pc = "idle"
    /\ ~series.none
    /\ call' = [NoCall EXCEPT !.fn = "pct_change"]
    /\ out' = SeriesResult(Return(PctChangeTrace(series.df)), "")
    /\ UNCHANGED <<series, out2, passed>>
    /\ UNCHANGED <<basketVars, runVars, ttlVars>>

NextSeries ==
    \/ CallProcessDataAllTimes
    \/ CallProcessDataAllTimesAgain
    \/ CallFilterDataByTimeRange
    \/ CallScaledTrace
    \/ CallPctChangeTrace

SpecSeries == InitSeries /\ [][NextSeries]_vars

\* ------------------------------------------- the memoized fetch over time
\* @st.cache_data(ttl=1800) of app.get_data
get_data_ttl == 1800

\* @st.cache_data(ttl=3600, ...) of utils.fetch_stock_data
fetch_stock_data_ttl == 3600

\* the number of clock steps of a behaviour
MaxTicks == 8

\* the clock advances in steps of half the shorter time-to-live
TickSeconds == get_data_ttl \div 2

\* st.cache_data(ttl): an entry is served while it is younger than ttl
Fresh(entry, ttl, t) == entry.cached /\ t - entry.stored_at < ttl

\* the memoized fetch_stock_data called at time t: the entry after the call.
\* The body runs only when no fresh entry exists, and what it returns is
\* stored, None included; fetched_at is the time the
\* provider was asked for the value of the entry.
FetchStockDataEntry(entry, t, answer) ==
    IF Fresh(entry, fetch_stock_data_ttl, t) THEN entry
    ELSE [cached     |-> TRUE,
          stored_at  |-> t,
          value      |-> fetch_stock_data(answer),
          fetched_at |-> t]

\* the memoized get_data called at time t: its body returns what the
\* memoized fetch_stock_data returns, stored anew at t
GetDataEntry(outer, inner, t, answer) ==
    IF Fresh(outer, get_data_ttl, t) THEN outer
    ELSE [FetchStockDataEntry(inner, t, answer) EXCEPT !.stored_at = t]

\* the answers of the provider for the one key of this part
ProviderAnswers == AnswersFrom(mags_etf, 78)

InitCache ==
    /\ BasketIdle
    /\ SeriesIdle
    /\ RunIdle
    /\ now = 0
    /\ provider \in ProviderAnswers
    /\ fetch_cache = NoEntry
    /\ get_cache = NoEntry
    /\ served = NotServed

\* time passes
Elapse ==
    /\ now < MaxTicks * TickSeconds
    /\ now' = now + TickSeconds
    /\ UNCHANGED <<provider, fetch_cache, get_cache, served>>
    /\ UNCHANGED <<basketVars, seriesVars, runVars>>

\* the provider becomes unavailable, available again, or has other bars
ProviderChanges ==
    /\ provider' \in ProviderAnswers \ {provider}
    /\ UNCHANGED <<now, fetch_cache, get_cache, served>>
    /\ UNCHANGED <<basketVars, seriesVars, runVars>>

\* a run of the script calls get_data(ticker, start, end) with the same
\* ticker and date range as before
CallGetData ==
    /\ LET outer_fresh == Fresh(get_cache, get_data_ttl, now)
           inner_fresh == Fresh(fetch_cache, fetch_stock_data_ttl, now)
           entry == GetDataEntry(get_cache, fetch_cache, now, provider)
       IN  /\ get_cache' = entry
           /\ fetch_cache' = IF outer_fresh THEN fetch_cache
                             ELSE FetchStockDataEntry(fetch_cache, now, provider)
           /\ served' = [called     |-> TRUE,
                         at         |-> now,
                         value      |-> IF outer_fresh THEN get_cache.value
                                        ELSE IF inner_fresh THEN fetch_cache.value
                                        ELSE fetch_stock_data(provider),
                         fetched_at |-> IF outer_fresh THEN get_cache.fetched_at
                                        ELSE IF inner_fresh THEN fetch_cache.fetched_at
                                        ELSE now,
                         asked      |-> ~outer_fresh /\ ~inner_fresh,
                         after_none |-> served.called /\ served.value.none]
    /\ UNCHANGED <<now, provider>>
    /\ UNCHANGED <<basketVars, seriesVars, runVars>>

NextCache ==
    \/ Elapse
    \/ ProviderChanges
    \/ CallGetData

SpecCache == InitCache /\ [][NextCache]_vars

\* ================================================================ claims
NonEmptyEntities(b) == {i \in 1..Len(b) : ~IsEmpty(b[i].data)}

Returned(f) == op = f /\ ~ret.raised

\* the sum of the 'Adj Close' values the entities of b have at the label t
RECURSIVE SumAt(_, _, _)
SumAt(b, t, i) ==
    IF i > Len(b) THEN R(0)
    ELSE RAdd(IF t \in IndexSet(b[i].data) /\ ~IsNaN(At(b[i].data, AdjClose, t))
              THEN At(b[i].data, AdjClose, t) ELSE R(0),
              SumAt(b, t, i + 1))

\* C2 (as claimed): calculate_weighted_portfolio never raises and returns
\* an empty series when the basket has no entity and when every entity of
\* the basket is empty.
C2_StarvationReturnsEmpty ==
    (op = "calculate_weighted_portfolio" /\ NonEmptyEntities(basket) = {})
        => (~ret.raised /\ IsEmpty(ret.val))

\* C3 (as claimed): create_dataframe returns a table and never raises, for
\* every basket it is given, the proxy frames without 'Adj Close' included.
C3_CreateDataframeNeverRaises ==
    op = "create_dataframe" => ~ret.raised

\* C5 (as claimed): the index utils.to_excel writes for a table whose index
\* is labelled Europe/Berlin is naive and shows, row by row, the Berlin wall
\* clock of the table's index; the table itself is unchanged.
C5_ExportKeepsDisplayWallClock ==
    (op = "to_excel" /\ ret.val.tz = "Europe/Berlin")
        => /\ exported.sheet.tz = "naive"
           /\ Len(exported.sheet.rows) = Len(ret.val.rows)
           /\ \A i \in 1..Len(ret.val.rows) :
                exported.sheet.rows[i].t = WallClock("Europe/Berlin", ret.val.rows[i].t)
           /\ exported.df = ret.val

\* every row of the returned table is complete for the entity i of the basket
\* and carries a timestamp of that entity
CompleteFor(i) ==
    \A j \in 1..Len(ret.val.rows) :
        LET row == ret.val.rows[j]
        IN  /\ ValueCol(basket[i].name) \in DOMAIN row.cell
            /\ PctCol(basket[i].name) \in DOMAIN row.cell
            /\ ~IsNaN(row.cell[ValueCol(basket[i].name)])
            /\ ~IsNaN(row.cell[PctCol(basket[i].name)])
            /\ row.t \in IndexSet(basket[i].data)

\* C6 (as claimed): every row create_dataframe retains has a Value and a
\* % Change for every entity of the basket, and its timestamp is in every
\* entity's timestamp set.
C6_CompleteForEveryEntity ==
    Returned("create_dataframe") => \A i \in 1..Len(basket) : CompleteFor(i)

\* C6 (amended): every row create_dataframe retains has a non-missing Value
\* and % Change for every entity of the basket whose series is not empty, and
\* its timestamp is in the timestamp set of each of those entities; so two
\* non-empty entities with disjoint timestamp sets give an empty table.
C6_CompleteForNonEmptyEntities ==
    Returned("create_dataframe") =>
        /\ \A i \in NonEmptyEntities(basket) : CompleteFor(i)
        /\ (\E i, k \in NonEmptyEntities(basket) :
                IndexSet(basket[i].data) \cap IndexSet(basket[k].data) = {})
            => IsEmpty(ret.val)

\* two non-empty entities with different timestamp sets, and a row retained
C6_Witness ==
    /\ Returned("create_dataframe")
    /\ Len(ret.val.rows) > 0
    /\ \E i, k \in NonEmptyEntities(basket) : IndexSet(basket[i].data) # IndexSet(basket[k].data)

\* (cur - prev) / prev * 100
PctBetween(prev, cur) == RDiv(RMul(RSub(cur, prev), R(100)), prev)

\* the % Change of entity i recomputed from consecutive rows of its Value
\* column in the returned table, formatted as the table formats it; the
\* first row has no row before it
Recomputed(i) ==
    [j \in 1..Len(ret.val.rows) |->
        IF j = 1 THEN NaN
        ELSE Format2f(PctBetween(ret.val.rows[j - 1].cell[ValueCol(basket[i].name)],
                                 ret.val.rows[j].cell[ValueCol(basket[i].name)]))]

\* C7 (as claimed): for every retained row, the percentage change recomputed
\* from consecutive rows of an entity's Value column of the output equals the
\* entity's % Change column of the output.
C7_RoundTripEveryRow ==
    Returned("create_dataframe") =>
        \A i \in NonEmptyEntities(basket) : \A j \in 1..Len(ret.val.rows) :
            Recomputed(i)[j] = ret.val.rows[j].cell[PctCol(basket[i].name)]

\* C7 (amended): the round trip holds for every retained row but the first
\* whose predecessor in the entity's own series is the retained row before
\* it (no sample of the entity was dropped between the two).
C7_RoundTripConsecutiveRows ==
    Returned("create_dataframe") =>
        \A i \in NonEmptyEntities(basket) : \A j \in 2..Len(ret.val.rows) :
            (~\E t \in IndexSet(basket[i].data) :
                    ret.val.rows[j - 1].t < t /\ t < ret.val.rows[j].t)
                => Recomputed(i)[j] = ret.val.rows[j].cell[PctCol(basket[i].name)]

\* two consecutive retained rows between which one entity has no sample of
\* its own (the round trip applies to it) and another entity has one
C7_Witness ==
    /\ Returned("create_dataframe")
    /\ Len(ret.val.rows) >= 2
    /\ \E i, k \in NonEmptyEntities(basket) :
         /\ ~\E t \in IndexSet(basket[i].data) : ret.val.rows[1].t < t /\ t < ret.val.rows[2].t
         /\ \E t \in IndexSet(basket[k].data) : ret.val.rows[1].t < t /\ t < ret.val.rows[2].t

\* C8 (as claimed): the weight is 1 / (number of non-empty entities): at
\* every timestamp of the composite its value is the sum of the entities'
\* values there divided by the number of non-empty entities, so the basket
\* {A: empty, B: [(t0,10),(t1,20)]} gives [(t0,10),(t1,20)].
C8_WeightIsOneOverNonEmpty ==
    Returned("calculate_weighted_portfolio") =>
        \A j \in 1..Len(ret.val.rows) :
            ret.val.rows[j].cell[WeightedPortfolioCol] =
                RDiv(SumAt(basket, ret.val.rows[j].t, 1), R(Cardinality(NonEmptyEntities(basket))))

ScenarioBasket ==
    <<[name |-> "A", data |-> EmptyFrame], [name |-> "B", data |-> SeriesFrame({0, 1}, 1)]>>

\* C8 (amended): the weight is 1 / len(basket), empty entities counted: a
\* basket with exactly one non-empty entity E gives E's values divided by the
\* number of entities of the basket, so {A: empty, B: [(t0,10),(t1,20)]}
\* gives [(t0,5),(t1,10)].
C8_WeightIsOneOverBasketSize ==
    /\ \A i \in 1..Len(basket) :
        (Returned("calculate_weighted_portfolio") /\ NonEmptyEntities(basket) = {i}) =>
            /\ Index(ret.val) = Index(basket[i].data)
            /\ \A j \in 1..Len(ret.val.rows) :
                 ret.val.rows[j].cell[WeightedPortfolioCol] =
                     RDiv(basket[i].data.rows[j].cell[AdjClose], R(Len(basket)))
    /\ (Returned("calculate_weighted_portfolio") /\ basket = ScenarioBasket) =>
            /\ Index(ret.val) = <<0, 1>>
            /\ Column(ret.val, WeightedPortfolioCol) = <<R(5), R(10)>>

C8_Witness == Returned("calculate_weighted_portfolio") /\ basket = ScenarioBasket

\* C9: the denominator of the weight is the number of entities of the basket
\* argument, empty ones included: at every timestamp of the composite its
\* value is (the sum of the values of the entities that have one there) /
\* len(basket).
C9_DenominatorIsBasketSize ==
    Returned("calculate_weighted_portfolio") =>
        \A j \in 1..Len(ret.val.rows) :
            ret.val.rows[j].cell[WeightedPortfolioCol] =
                RDiv(SumAt(basket, ret.val.rows[j].t, 1), R(Len(basket)))

\* a composite of a basket with an empty entity and an entity that has no
\* sample at one of the composite's timestamps
C9_Witness ==
    /\ Returned("calculate_weighted_portfolio")
    /\ NonEmptyEntities(basket) # {}
    /\ \E i \in 1..Len(basket) : IsEmpty(basket[i].data)

\* C10 (as claimed): the timestamps of the composite are the union of the
\* timestamps of the non-empty entities of the basket.
C10_CompositeIndexIsUnion ==
    Returned("calculate_weighted_portfolio") =>
        IndexSet(ret.val) = UNION {IndexSet(basket[i].data) : i \in NonEmptyEntities(basket)}

\* C1 (as claimed): whatever the provider answers for the twelve tickers, a
\* run of app.py goes through both tabs without an uncaught exception.
C1_AppRunNeverCrashes == pc # "crashed"

\* C4 (as claimed): in every run an export control is on the page only for a
\* table of at least one row, the per-ticker 'Percentage Changes' exports of
\* streamlit_app.py included.
C4_NoExportOfEmptyTable == \A e \in ui : e.kind = "download" => e.rows >= 1

\* the orders a basket of n entities can be given in
BasketOrders(n) == {p \in [1..n -> 1..n] : \A i, k \in 1..n : p[i] = p[k] => i = k}

Permuted(b, p) == [i \in 1..Len(b) |-> b[p[i]]]

\* create_dataframe gives the same rows, cell by cell, for every order of
\* the basket
CreateDataframeOrderFree ==
    Returned("create_dataframe") =>
        \A p \in BasketOrders(Len(basket)) :
            LET r == create_dataframe(Permuted(basket, p))
            IN  ~r.raised /\ r.val.rows = ret.val.rows

\* C11 (as claimed): the order of the entities does not affect the results:
\* for every order of the basket calculate_weighted_portfolio returns the
\* same timestamps and values, and create_dataframe the same rows and cells.
C11_EntityOrderIrrelevant ==
    /\ Returned("calculate_weighted_portfolio") =>
         \A p \in BasketOrders(Len(basket)) :
             LET r == calculate_weighted_portfolio(Permuted(basket, p))
             IN  ~r.raised /\ r.val.rows = ret.val.rows
    /\ CreateDataframeOrderFree

Called(f) == call.fn = f

HasInput == ~series.none /\ ~IsEmpty(series.df)

\* C12: process_data_all_times applied to its own result gives that result
\* again (same index, same values), for a naive, a labelled and an empty
\* series.
C12_NormalizeIdempotent ==
    Called("process_data_all_times twice") => ~out2.raised /\ out2.val = out.val

\* a naive series of two rows or more went through the function twice
C12_Witness ==
    /\ Called("process_data_all_times twice")
    /\ HasInput /\ series.df.tz = "naive" /\ Len(series.df.rows) >= 2
    /\ ~call.tz_raises
    /\ Len(out2.val.rows) >= 2

\* the instant of row i of the input: a naive reading is a UTC reading
InstantOf(df, i) ==
    IF df.tz = "naive" THEN df.rows[i].t
    ELSE WallClock(df.tz, df.rows[i].t) - UtcOffset(df.tz, df.rows[i].t)

\* C13: process_data_all_times gives a series labelled Europe/Berlin with the
\* rows of the input, row by row the same values and the same instant (a
\* naive reading taken as UTC, a labelled one converted), shown on the
\* Berlin clock.
C13_NormalizeKeepsInstants ==
    (Called("process_data_all_times") /\ HasInput /\ ~call.tz_raises) =>
        /\ ~out.raised
        /\ out.val.tz = "Europe/Berlin"
        /\ Len(out.val.rows) = Len(series.df.rows)
        /\ \A i \in 1..Len(series.df.rows) :
             /\ out.val.rows[i].cell = series.df.rows[i].cell
             /\ WallClock("UTC", out.val.rows[i].t) = InstantOf(series.df, i)
             /\ WallClock(out.val.tz, out.val.rows[i].t)
                    = InstantOf(series.df, i) + UtcOffset("Europe/Berlin", InstantOf(series.df, i))

\* a series labelled America/New_York was normalized
C13_Witness ==
    /\ Called("process_data_all_times") /\ HasInput /\ ~call.tz_raises
    /\ series.df.tz = "America/New_York"
    /\ Len(out.val.rows) >= 2

\* C14: process_data_all_times never raises; None and the empty series give
\* the empty series, and so does a series whose localizing or converting
\* raises: the value a failed fetch gives.
C14_NormalizeNeverRaises ==
    Called("process_data_all_times") =>
        /\ ~out.raised
        /\ (~HasInput => IsEmpty(out.val))
        /\ call.tz_raises => out.val = process_data_all_times(None)

\* the conversion of a series with rows raised
C14_Witness ==
    Called("process_data_all_times") /\ HasInput /\ call.tz_raises /\ ~out.raised

\* the Berlin clock time of day of an instant
BerlinTimeOfDay(t) == (t + UtcOffset("Europe/Berlin", t)) % 48

InWindow(t) == call.start_time <= BerlinTimeOfDay(t) /\ BerlinTimeOfDay(t) <= call.end_time

\* C15: for a series labelled Europe/Berlin and a window with start <= end,
\* filter_data_by_time_range returns exactly the rows whose clock time of day
\* is in the window, both ends included, in their order; an empty input
\* gives an empty output.
C15_FilterIsExactWindow ==
    /\ (Called("filter_data_by_time_range") /\ HasInput /\ series.df.tz = "Europe/Berlin"
            /\ call.start_time <= call.end_time) =>
         /\ ~out.raised
         /\ out.val.tz = "Europe/Berlin"
         /\ out.val.rows = SelectSeq(series.df.rows, LAMBDA r : InWindow(r.t))
    /\ (Called("filter_data_by_time_range") /\ ~HasInput) => IsEmpty(out.val)

\* a row at the end of the window was kept and a row outside it was dropped
C15_Witness ==
    /\ Called("filter_data_by_time_range") /\ HasInput /\ series.df.tz = "Europe/Berlin"
    /\ call.start_time < call.end_time
    /\ \E i \in 1..Len(out.val.rows) : BerlinTimeOfDay(out.val.rows[i].t) = call.end_time
    /\ Len(out.val.rows) < Len(series.df.rows)

\* C16 (as claimed): whatever the label of the input index, the rows
\* filter_data_by_time_range returns have a Europe/Berlin clock time in the
\* window and the returned index is labelled Europe/Berlin.
C16_FilterConvertsToBerlin ==
    (Called("filter_data_by_time_range") /\ HasInput /\ call.start_time <= call.end_time) =>
        /\ out.val.tz = "Europe/Berlin"
        /\ \A i \in 1..Len(out.val.rows) :
             InWindow(out.val.rows[i].t)

\* the labels of the input whose 'Adj Close' is not missing
ValidLabels == {t \in IndexSet(series.df) : ~IsNaN(At(series.df, AdjClose, t))}

FirstValidLabel == CHOOSE t \in ValidLabels : \A u \in ValidLabels : t <= u

\* C17: the scaling loop gives no trace exactly when the series has no
\* non-missing 'Adj Close'; otherwise the trace has the index of the series
\* in ascending order and every value is the series' value divided by its
\* value at the earliest label with a value, times 100, which is exactly 100
\* at that label.
C17_RebaseTo100 ==
    Called("scaled") =>
        /\ ~out.raised
        /\ (out.warning # "") <=> (ValidLabels = {})
        /\ (ValidLabels = {}) => IsEmpty(out.val)
        /\ (ValidLabels # {}) =>
             /\ Index(out.val) = SortedSeq(IndexSet(series.df))
             /\ \A i \in 1..Len(out.val.rows) :
                  out.val.rows[i].cell[AdjClose] =
                      RMul(RDiv(At(series.df, AdjClose, out.val.rows[i].t),
                                At(series.df, AdjClose, FirstValidLabel)), R(100))
             /\ At(out.val, AdjClose, FirstValidLabel) = R(100)

\* a series given in descending order whose earliest value is missing
C17_Witness ==
    /\ Called("scaled") /\ HasInput
    /\ Len(series.df.rows) >= 3
    /\ series.df.rows[1].t > series.df.rows[2].t
    /\ ValidLabels # {}
    /\ \E t \in IndexSet(series.df) : t < FirstValidLabel
    /\ out.warning = ""

NoMissing(df) == \A i \in 1..Len(df.rows) : ~IsNaN(df.rows[i].cell[AdjClose])

\* C18: for a series S without missing values pct_change()*100 followed by
\* dropna has len(S)-1 samples (0 for an empty S); sample j is
\* (S[j+1]-S[j])/S[j]*100 at the label of S[j+1]; the first sample of S gives
\* no output.
C18_PctChangeSamples ==
    (Called("pct_change") /\ NoMissing(series.df)) =>
        /\ ~out.raised
        /\ Len(out.val.rows) = IF Len(series.df.rows) = 0 THEN 0 ELSE Len(series.df.rows) - 1
        /\ \A j \in 1..Len(out.val.rows) :
             /\ out.val.rows[j].t = series.df.rows[j + 1].t
             /\ out.val.rows[j].cell[AdjClose] =
                    PctBetween(series.df.rows[j].cell[AdjClose], series.df.rows[j + 1].cell[AdjClose])

\* a series of three values or more, none missing
C18_Witness ==
    /\ Called("pct_change") /\ NoMissing(series.df)
    /\ Len(series.df.rows) >= 3
    /\ Len(out.val.rows) >= 2

\* y is k times x
IsMultiple(y, k, x) == ~IsNaN(x) /\ ~IsNaN(y) /\ y.n * x.d = k * x.n * y.d

\* column c of proxy is k times column src of base, label by label, and
\* proxy has the columns of base as they are
ScaledFrom(proxy, c, k, base, src) ==
    /\ Index(proxy) = Index(base)
    /\ \A i \in 1..Len(base.rows) :
         /\ IsMultiple(proxy.rows[i].cell[c], k, base.rows[i].cell[src])
         /\ \A x \in Range(base.columns) : proxy.rows[i].cell[x] = base.rows[i].cell[x]

Weighted5xCol == Col("", "Weighted MAGS 5x")

\* C19: in a run of app.py PROXY QQQ3 and PROXY QQQ5 are 3 and 5 times the
\* QQQ 'Adj Close' at every QQQ timestamp and 'Weighted MAGS 5x' is 5 times
\* 'Weighted Portfolio' at every portfolio timestamp; the base frames keep
\* their single column; an empty QQQ gives no proxy and an empty portfolio
\* an empty 5x portfolio; QQQ = [(t0,10),(t1,20)] gives PROXY QQQ3 = [30, 60].
C19_ProxiesAreScalarMultiples ==
    /\ qtab.qqq_proxy_bound <=> ~IsEmpty(qtab.qqq_filtered_data)
    /\ qtab.qqq_proxy_bound =>
         /\ ScaledFrom(qtab.qqq_proxy, ProxyQQQ3, 3, qtab.qqq_filtered_data, AdjClose)
         /\ ScaledFrom(qtab.qqq_proxy, ProxyQQQ5, 5, qtab.qqq_filtered_data, AdjClose)
         /\ qtab.qqq_filtered_data.columns = <<AdjClose>>
         /\ Column(qtab.qqq_filtered_data, AdjClose) = <<R(10), R(20)>>
                => Column(qtab.qqq_proxy, ProxyQQQ3) = <<R(30), R(60)>>
    /\ IsEmpty(main.weighted_mags_5x) <=> IsEmpty(main.weighted_portfolio)
    /\ ~IsEmpty(main.weighted_portfolio) =>
         /\ ScaledFrom(main.weighted_mags_5x, Weighted5xCol, 5,
                       main.weighted_portfolio, WeightedPortfolioCol)
         /\ main.weighted_portfolio.columns = <<WeightedPortfolioCol>>

\* both proxies were built, from a QQQ series of two bars
C19_Witness ==
    /\ qtab.qqq_proxy_bound
    /\ Column(qtab.qqq_filtered_data, AdjClose) = <<R(10), R(20)>>
    /\ Len(main.weighted_mags_5x.rows) >= 2

AfterMag7Loop ==
    {"app:combined", "app:scaled", "app:qqq", "app:qqq_table", "app:qqq_scaled", "app:done", "crashed"}

AfterCombined == AfterMag7Loop \ {"app:combined"}

\* C20: whichever companies the fetch fails for, the Mag 7 loop goes through
\* the seven companies in order, mag7_data gets an entry for each (an empty
\* frame for a failed one), an error or a warning is shown for each company
\* left without data, and the portfolio chart and the combined table (or its
\* warning) follow.
C20_Mag7LoopIsolatesFailures ==
    /\ \A i \in 1..Len(main.mag7_data) :
         /\ main.mag7_data[i].name = mag7[i].company
         /\ cache[mag7[i].ticker].cached
         /\ cache[mag7[i].ticker].value.none => IsEmpty(main.mag7_data[i].data)
         /\ IsEmpty(main.mag7_data[i].data) =>
              \E e \in ui : e.kind \in {"error", "warning"} /\ e.who = mag7[i].company
    /\ pc \in AfterMag7Loop =>
         /\ Len(main.mag7_data) = 7
         /\ Chart("fig_mag7_companies") \in ui
    /\ pc \in AfterCombined =>
         \/ \E e \in ui : e.kind = "table" /\ e.msg = "df_combined"
         \/ Warning("No combined data available to display.", "") \in ui

\* the fetch failed for some companies and not for others, and the combined
\* stage has run
C20_Witness ==
    /\ pc \in AfterCombined
    /\ \E i, k \in 1..Len(main.mag7_data) :
         /\ IsEmpty(main.mag7_data[i].data) /\ ~IsEmpty(main.mag7_data[k].data)
    /\ Cardinality({i \in 1..Len(main.mag7_data) : IsEmpty(main.mag7_data[i].data)}) >= 2

\* C21: no stage modifies its input: after process_data_all_times or
\* filter_data_by_time_range returns, the object handed in has the index,
\* the time zone label, the columns and the values it had before the call,
\* a naive series included.
C21_NoStageModifiesInput ==
    (Called("process_data_all_times") \/ Called("filter_data_by_time_range")) => passed = series

\* C22: whenever get_data(ticker, start, end) returns a result, the result
\* was obtained from the data provider no longer ago than get_data's
\* time-to-live of 1800 s.
C22_ResultNoOlderThanTtl ==
    served.called => served.at - served.fetched_at <= get_data_ttl

\* C23: after a fetch that returned None, a rerun with the same ticker and
\* date range asks the data provider again, and a provider that is available
\* again gives a populated series on that rerun.
C23_RerunAfterFailureAsksProvider ==
    (served.called /\ served.after_none) =>
        /\ served.asked
        /\ (provider.outcome = "ok" /\ ~IsEmpty(provider.df)) => ~served.value.none

AllEmpty(tickers_data) == \A i \in 1..Len(tickers_data) : IsEmpty(tickers_data[i].data)

CombinedStageDone == {"app:scaled", "app:qqq", "app:qqq_table", "app:qqq_scaled", "app:done"}

\* C24: create_dataframe returns an empty table, without raising, for a
\* basket without entities and for a basket whose entities all have an empty
\* series; in a run of app.py an empty combined table puts the warning
\* "No combined data available to display." on the page, and neither the
\* table nor the export control.
C24_EmptyCombinedGivesWarning ==
    /\ create_dataframe(<<>>) = Return(EmptyFrame)
    /\ AllEmpty(CombinedData(main)) => create_dataframe(CombinedData(main)) = Return(EmptyFrame)
    /\ pc \in CombinedStageDone =>
         /\ main.df_combined = create_dataframe(CombinedData(main)).val
         /\ IsEmpty(main.df_combined) =>
              Warning("No combined data available to display.", "") \in ui
    /\ Warning("No combined data available to display.", "") \in ui =>
         /\ IsEmpty(main.df_combined)
         /\ ~\E e \in ui : e.kind = "table" /\ e.msg = "df_combined"
         /\ ~\E e \in ui : e.kind = "download" /\ e.msg = "Export Combined Data to Excel"

\* the combined stage has run on a basket of eleven entities, all of them
\* with an empty series
C24_Witness ==
    /\ pc \in CombinedStageDone
    /\ Len(CombinedData(main)) = 11
    /\ AllEmpty(CombinedData(main))
    /\ Warning("No combined data available to display.", "") \in ui

NonEmptySeq(b) == SelectSeq(b, LAMBDA e : ~IsEmpty(e.data))

ExpectedColumns(b) ==
    [i \in 1..Len(NonEmptySeq(b)) |-> ValueCol(NonEmptySeq(b)[i].name)]
    \o [i \in 1..Len(NonEmptySeq(b)) |-> PctCol(NonEmptySeq(b)[i].name)]

\* C25: the table create_dataframe returns has, for each non-empty entity E
\* of the basket and for no other, one column 'E Value' and one column
\* 'E % Change': the Value columns in insertion order, then the % Change
\* columns in insertion order, no column twice, whatever the entity names.
C25_ColumnsOncePerEntity ==
    Returned("create_dataframe") => ret.val.columns = ExpectedColumns(basket)

\* C26: the rebased series starts at the first valid observation: the trace
\* of the scaling loop has no entry, defined or undefined, for a timestamp
\* before the earliest label that has a value.
C26_LeadingSamplesDropped ==
    (Called("scaled") /\ ValidLabels # {}) =>
        \A i \in 1..Len(out.val.rows) : out.val.rows[i].t >= FirstValidLabel

\* the clock time of day row r of the index handed to between_time shows
ClockOf(r) == WallClock(passed.df.tz, r.t) % 48

\* C27: called with start_time later than end_time,
\* filter_data_by_time_range does not raise and takes the window as wrapping
\* midnight: it returns exactly the rows whose clock time t satisfies
\* t >= start_time or t <= end_time, in their order.
C27_WindowWrapsMidnight ==
    (Called("filter_data_by_time_range") /\ HasInput /\ call.start_time > call.end_time) =>
        /\ ~out.raised
        /\ out.val.rows = SelectSeq(passed.df.rows, LAMBDA r :
                              ClockOf(r) >= call.start_time \/ ClockOf(r) <= call.end_time)

\* a window from 21:30 to 20:00 kept a row at 21:30 and a row at 20:00 and
\* dropped the rows in between
C27_Witness ==
    /\ Called("filter_data_by_time_range") /\ HasInput
    /\ call.start_time > call.end_time
    /\ \E i \in 1..Len(out.val.rows) : WallClock(out.val.tz, out.val.rows[i].t) % 48 >= call.start_time
    /\ \E i \in 1..Len(out.val.rows) : WallClock(out.val.tz, out.val.rows[i].t) % 48 <= call.end_time
    /\ Len(out.val.rows) < Len(series.df.rows)

\* C28: on the export path of streamlit_app.py a table with a timezone-aware
\* index is made naive before it is written and the export returns the
\* spreadsheet bytes without raising: no run ends in the ValueError of
\* writing an aware index, and every table with rows put on the page has its
\* export control.
C28_ExportStripsTimezone ==
    /\ exc # "ValueError"
    /\ \A e \in ui : (e.kind = "table" /\ e.rows > 0) =>
         \E d \in ui : d.kind = "download" /\ d.rows = e.rows

\* the series k x S: every value of S multiplied by k
TimesK(df, k) ==
    [df EXCEPT !.rows = [i \in 1..Len(df.rows) |->
        [t    |-> df.rows[i].t,
         cell |-> [c \in DOMAIN df.rows[i].cell |-> RMul(df.rows[i].cell[c], R(k))]]]]

Factors == {0 - 2, 3, 5}

ScaledEntries(name) ==
    {i \in 1..Len(main.scaled_tickers) : main.scaled_tickers[i].name = name}

\* C29: the rebased series and the percentage changes of k x S are those of
\* S, for every series S plotted in a run of app.py and every factor k; and
\* the scaled line and the % Change column of 'Weighted MAGS 5x Portfolio'
\* are those of 'Weighted Mag 7 Portfolio'.
C29_ScaleInvariance ==
    /\ \A i \in 1..Len(main.scaled_tickers), k \in Factors :
         LET S == main.scaled_tickers[i].data
         IN  /\ ScaledTrace(TimesK(S, k)) = ScaledTrace(S)
             /\ PctChangeTrace(TimesK(S, k)) = PctChangeTrace(S)
    /\ \A i \in ScaledEntries("Weighted Mag 7 Portfolio"),
          j \in ScaledEntries("Weighted MAGS 5x Portfolio") :
         LET S  == main.scaled_tickers[i].data
             S5 == main.scaled_tickers[j].data
         IN  /\ Column(S5, AdjClose) = Column(TimesK(S, 5), AdjClose)
             /\ ScaledTrace(S5).plotted = ScaledTrace(S).plotted
             /\ Index(ScaledTrace(S5).trace) = Index(ScaledTrace(S).trace)
             /\ Column(ScaledTrace(S5).trace, AdjClose) = Column(ScaledTrace(S).trace, AdjClose)
             /\ Column(PctChangeTrace(S5), AdjClose) = Column(PctChangeTrace(S), AdjClose)
             /\ Column(main.df_scaled, PctCol("Weighted MAGS 5x Portfolio"))
                    = Column(main.df_scaled, PctCol("Weighted Mag 7 Portfolio"))

\* the scaled section plotted both portfolios, of two bars or more, and the
\* table has a row with their % Change
C29_Witness ==
    /\ ScaledEntries("Weighted Mag 7 Portfolio") # {}
    /\ ScaledEntries("Weighted MAGS 5x Portfolio") # {}
    /\ \A i \in ScaledEntries("Weighted Mag 7 Portfolio") :
         /\ Len(main.scaled_tickers[i].data.rows) >= 2
         /\ ScaledTrace(main.scaled_tickers[i].data).plotted
    /\ Len(main.df_scaled.rows) >= 1
    /\ PctCol("Weighted MAGS 5x Portfolio") \in Range(main.df_scaled.columns)

\* the earliest timestamp of a non-empty series
Earliest(df) == CHOOSE t \in IndexSet(df) : \A u \in IndexSet(df) : t <= u

\* C30: the first sample of an entity never appears in the combined table:
\* for every non-empty entity E of the basket the earliest timestamp of E is
\* absent from the table create_dataframe returns; a single entity with n
\* samples gives n-1 rows, and an entity with a single sample makes the
\* whole table empty.
C30_FirstSampleAbsent ==
    Returned("create_dataframe") =>
        /\ \A i \in NonEmptyEntities(basket) :
             /\ Earliest(basket[i].data) \notin IndexSet(ret.val)
             /\ Len(basket[i].data.rows) = 1 => Len(ret.val.rows) = 0
        /\ (Len(basket) = 1 /\ NonEmptyEntities(basket) = {1}) =>
             Len(ret.val.rows) = Len(basket[1].data.rows) - 1

\* two entities that start at different timestamps gave a table with a row
C30_Witness ==
    /\ Returned("create_dataframe")
    /\ Len(basket) = 2 /\ NonEmptyEntities(basket) = {1, 2}
    /\ Earliest(basket[1].data) # Earliest(basket[2].data)
    /\ Len(ret.val.rows) >= 1

====
